---- MODULE Spec2Model ----
(***************************************************************************)
(* A model of the cluster deletion orchestrator (UnownedCluster.Delete),   *)
(* the additive cluster-stack update (AppendNewClusterStackResource) and   *)
(* the node-group capacity defaulting/validation (AddAllResources).        *)
(***************************************************************************)
EXTENDS Integers, Sequences, FiniteSets, TLC

\* ------------------------------------------------------------------------
\* Bounds
\* ------------------------------------------------------------------------
MaxNodeGroups == 2
MaxLeaves == 3
MaxLoopProfiles == 2
MaxLoopNodeGroups == 1
MaxCtlNodeGroups == 2
MaxNameLen == 5
MaxStacks == 3
MaxSubnets == 3
MaxZones == 5
MaxProfiles == 1
MaxNames == 1
MaxCalls == 2
MaxCapacity == 10
MaxLabels == 48
MaxTaints == 2

\* the node-group names: those of a cluster of MaxNodeGroups node groups and,
\* for the runs of the task tree alone, of one of MaxLeaves
NgNames == 1..MaxLeaves
\* the Fargate profile names: those of a cluster of MaxProfiles profiles and,
\* for the runs of the profile loop, of one of MaxLoopProfiles
Profiles == 1..MaxLoopProfiles

NgSeq == [i \in 1..MaxLeaves |-> i]
ProfileSeq == [i \in 1..MaxLoopProfiles |-> i]

None == <<"-", 0>>
NgStackId(n) == <<"ng", n>>
FargateStackId == <<"fargate", 0>>
DeprecatedStackId == <<"deprecated", 0>>
IAMServiceAccountStackId == <<"iamserviceaccount", 0>>
AddonIAMStackId == <<"addon-iam", 0>>

\* the stacks whose remote status the model follows
StackIds == {NgStackId(n) : n \in NgNames} \cup {FargateStackId}

StackStatuses ==
    {"NONE", "CREATE_COMPLETE", "DELETE_IN_PROGRESS", "DELETE_COMPLETE", "DELETE_FAILED"}

\* ------------------------------------------------------------------------
\* State of one UnownedCluster.Delete run and of the remote services
\* ------------------------------------------------------------------------
VARIABLES
    pc,               \* position of Delete
    force,            \* Delete's force argument
    wait,             \* Delete's wait argument
    describeErr,      \* the error DescribeCluster answers checkClusterExists with
    clusterOperable,  \* result of ctl.CanOperate
    oidcSupported,    \* oidcSupported of deleteIAMAndOIDC
    clientSet,        \* TRUE once newClientSet has returned a client
    allStacks,        \* result of ListNodeGroupStacks (sequence of NodeGroupStack)
    nodeGroups,       \* result of ListNodegroups in deleteAndWaitForNodegroupsDeletion
    profileNames,     \* Fargate profiles still to delete in deleteFargateProfiles
    tasks,            \* children of the node-group and of the IAM/OIDC task tree, and
                      \* the error list the last DoAllSync returned
    tasksFor,         \* the tree DoAllSync is running
    calls,            \* remote calls issued so far: how often each was issued
    phases,           \* steps of Delete that were entered
    warnings,         \* failures that were logged and not returned
    result,           \* "running", "ok" or "err"
    failedAt,         \* the step whose error Delete returned
    drainFailed,      \* TRUE once Drain has returned an error
    drainInput,       \* the node groups handed to Drain
    stackStatus,      \* remote stack service: status per stack
    ngType,           \* remote stack service: type tag of each node-group stack
    eksNodegroups,    \* control plane: managed node groups
    fargateProfiles,  \* control plane: status of each Fargate profile
    clusterStatus,    \* control plane: the cluster
    sshKeysDeleted,
    kubeconfigDeleted,
    elbCleaned,
    handled,          \* what the last handleErrors logged and returned
    cni,              \* what DeleteAddon and the DaemonSet deletion answer, and the
                      \* Debug lines attemptVpcCniDeletion logged
    listProfiles,     \* what ListProfiles answered in deleteFargateProfiles
    ngWait            \* the provider's wait timeout, the caller's poll interval, what
                      \* a poll of ListNodegroups is answered, the DeleteWaitCondition
                      \* built for the unowned node groups and its last evaluation

deleteVars ==
    <<pc, force, wait, describeErr, clusterOperable, oidcSupported, clientSet, allStacks, nodeGroups, profileNames,
      tasks, tasksFor, calls, phases, warnings, result, failedAt,
      drainFailed, drainInput, stackStatus, ngType, eksNodegroups, fargateProfiles, clusterStatus,
      sshKeysDeleted, kubeconfigDeleted, elbCleaned, handled, cni, ngWait, listProfiles>>

cfgVars == <<force, wait, describeErr>>

treeVars == <<tasks, tasksFor>>

localVars ==
    <<force, wait, describeErr, clusterOperable, oidcSupported, clientSet, allStacks, nodeGroups, profileNames,
      tasks, tasksFor, phases, warnings, drainFailed, drainInput>>

remoteVars ==
    <<stackStatus, ngType, eksNodegroups, fargateProfiles, clusterStatus,
      sshKeysDeleted, kubeconfigDeleted, elbCleaned>>

\* ------------------------------------------------------------------------
\* State of the cluster stack and of AppendNewClusterStackResource's calls
\* ------------------------------------------------------------------------
VARIABLES
    deployed,       \* the template of the deployed cluster stack (GetStackTemplate)
    desired,        \* the template the builder renders from the configuration
    ncalls,         \* calls of AppendNewClusterStackResource so far
    ret,            \* what the last call did and returned
    before,         \* the deployed template when the last call started
    submitted,      \* the TemplateData of the last UpdateStack
    applied,        \* TRUE once an UpdateStack of a call has succeeded
    appliedBefore   \* applied, when the last call started

appendVars == <<deployed, desired, ncalls, ret, before, submitted, applied, appliedBefore>>

\* ------------------------------------------------------------------------
\* State of one NodeGroupResourceSet.AddAllResources call
\* ------------------------------------------------------------------------
VARIABLES
    spec,              \* n.spec: MinSize, MaxSize, DesiredCapacity (Nil when unset)
    given,             \* the values the user set
    defaultNodeCount,  \* api.DefaultNodeCount
    ipv6,              \* clusterSpec.IPv6Enabled()
    ngResult,          \* "none" before the call, then "ok" or "error"
    ngFailedAt,        \* the statement that returned the error
    resources,         \* logical names of the resources added to the template
    autoScaler,        \* n.spec.IAM.WithAddonPolicies.AutoScaler is enabled
    propagateASGTags,  \* n.spec.PropagateASGTags is enabled
    labels,            \* keys of n.spec.Labels
    taints,            \* keys of n.spec.Taints, in order
    asgTags,           \* Tags of the NodeGroup resource, once it is added
    ngErrorArgs,       \* the numbers the returned error message names
    network,           \* n.spec: EFAEnabled, Placement, PrivateNetworking, whether
                       \* AvailabilityZones or Subnets are given, and the subnets
                       \* SelectNodeGroupSubnets answers with
    launch             \* the launch template's Placement and the subnets of the group

nodegroupVars ==
    <<spec, given, defaultNodeCount, ipv6, ngResult, ngFailedAt, resources,
      autoScaler, propagateASGTags, labels, taints, asgTags, ngErrorArgs, network, launch>>

tagInputVars == <<autoScaler, propagateASGTags, labels, taints>>

\* ------------------------------------------------------------------------
\* State of one Cmd.NewCtl call
\* ------------------------------------------------------------------------
VARIABLES
    cmd,   \* the Cmd and what its collaborators will answer: Validate, the error
           \* of ValidateClusterConfig, of ValidateNodeGroup and of
           \* ValidateManagedNodeGroup per node group, of eks.New, and
           \* IsSupportedRegion
    ctl    \* what NewCtl did and returned

ctlVars == <<cmd, ctl>>

\* ------------------------------------------------------------------------
\* State of one StackCollection.DescribeClusterStack call
\* ------------------------------------------------------------------------
VARIABLES
    cfnStacks,     \* what DescribeStacks answers: the stacks, or an error
    clusterStack   \* what DescribeClusterStack returned

stackVars == <<cfnStacks, clusterStack>>

\* ------------------------------------------------------------------------
\* State of one az.GetAvailabilityZones call
\* ------------------------------------------------------------------------
VARIABLES
    ec2,   \* the region asked for and what DescribeAvailabilityZones answers
    azs    \* what GetAvailabilityZones returned: the zone names and the error

azVars == <<ec2, azs>>

\* ------------------------------------------------------------------------
\* State of one SSMResolver.Resolve call
\* ------------------------------------------------------------------------
VARIABLES
    ssm,       \* the arguments of Resolve and the parameters the store lacks
    resolved   \* the GetParameter calls made, the AMI id and the error returned

ssmVars == <<ssm, resolved>>

\* ------------------------------------------------------------------------
\* State of a process that calls Cmd.NewCtl from several goroutines
\* ------------------------------------------------------------------------
VARIABLES
    once,        \* the package's sync.Once: its done flag, the holder of its mutex,
                 \* and how often logRegionAndVersionInfo has run
    goroutines   \* per NewCtl call: what its validation, eks.New and region test
                 \* answer, where it stands and what it returned

onceVars == <<once, goroutines>>

\* ------------------------------------------------------------------------
\* State of one importServiceRoleARN or RefreshFargatePodExecutionRoleARN call
\* ------------------------------------------------------------------------
VARIABLES
    roleStacks,  \* what DescribeClusterStack and GetFargateStack answer, and whether
                 \* the current template has a ServiceRole resource
    roles        \* the two role ARNs of the ClusterConfig, and what the call returned

roleVars == <<roleStacks, roles>>

vars == <<deleteVars, appendVars, nodegroupVars, ctlVars, stackVars, azVars, ssmVars, onceVars,
          roleVars>>

\* the variables of the other parts of the model
notDelete == <<appendVars, nodegroupVars, ctlVars, stackVars, azVars, ssmVars, onceVars, roleVars>>

notAppend == <<deleteVars, nodegroupVars, ctlVars, stackVars, azVars, ssmVars, onceVars, roleVars>>

notNodeGroup == <<deleteVars, appendVars, ctlVars, stackVars, azVars, ssmVars, onceVars, roleVars>>

notCtl == <<deleteVars, appendVars, nodegroupVars, stackVars, azVars, ssmVars, onceVars, roleVars>>

notStack == <<deleteVars, appendVars, nodegroupVars, ctlVars, azVars, ssmVars, onceVars, roleVars>>

notAZ == <<deleteVars, appendVars, nodegroupVars, ctlVars, stackVars, ssmVars, onceVars, roleVars>>

notSSM == <<deleteVars, appendVars, nodegroupVars, ctlVars, stackVars, azVars, onceVars, roleVars>>

notOnce == <<deleteVars, appendVars, nodegroupVars, ctlVars, stackVars, azVars, ssmVars, roleVars>>

notRole == <<deleteVars, appendVars, nodegroupVars, ctlVars, stackVars, azVars, ssmVars, onceVars>>

Call(op, arg) == [op |-> op, arg |-> arg]

\* the calls with one more c
Issued(bag, c) ==
    IF c \in DOMAIN bag
    THEN [bag EXCEPT ![c] = bag[c] + 1]
    ELSE [d \in DOMAIN bag \cup {c} |-> IF d = c THEN 1 ELSE bag[d]]

Issue(op, arg) == calls' = Issued(calls, Call(op, arg))

Count(op, arg) == IF Call(op, arg) \in DOMAIN calls THEN calls[Call(op, arg)] ELSE 0

IssuedOps == {c.op : c \in DOMAIN calls}

\* handleErrors was not called
NotHandled == [errs |-> << >>, subject |-> "", info |-> << >>, critical |-> << >>, err |-> << >>]

\* %d of a count
Decimal(n) ==
    CASE n = 0 -> "0" [] n = 1 -> "1" [] n = 2 -> "2" [] n = 3 -> "3" [] n = 4 -> "4"
      [] n = 5 -> "5" [] n = 6 -> "6" [] n = 7 -> "7" [] n = 8 -> "8" [] n = 9 -> "9"

\* a handleErrors that logs the first error only
handleErrorsLoggingOne(errs, subject) ==
    [errs |-> errs, subject |-> subject,
     info |-> <<Decimal(Len(errs)), " error(s) occurred while deleting ", subject>>,
     critical |-> SubSeq(errs, 1, 1),
     err |-> <<"failed to delete ", subject>>]

\* handleErrors: its arguments, the Info line with the count and the
\* subject, one Critical line per error, and the error it returns; a message
\* is the sequence of its format's pieces and arguments
handleErrors(errs, subject) ==
    [errs |-> errs, subject |-> subject,
     info |-> <<Decimal(Len(errs)), " error(s) occurred while deleting ", subject>>,
     critical |-> [i \in 1..Len(errs) |-> errs[i]],
     err |-> <<"failed to delete ", subject>>]

\* return err
Fail(step) ==
    /\ pc' = "done"
    /\ result' = "err"
    /\ failedAt' = step

\* control moves on to the next statement
Goto(next) ==
    /\ pc' = next
    /\ UNCHANGED <<result, failedAt>>

\* the two other parts of the model at rest
AppendIdle ==
    /\ deployed = << >>
    /\ desired = << >>
    /\ ncalls = 0
    /\ ret = << >>
    /\ before = << >>
    /\ submitted = << >>
    /\ applied = FALSE
    /\ appliedBefore = FALSE

NodeGroupIdle ==
    /\ spec = << >>
    /\ given = << >>
    /\ defaultNodeCount = 0
    /\ ipv6 = FALSE
    /\ ngResult = "none"
    /\ ngFailedAt = "-"
    /\ resources = {}
    /\ autoScaler = FALSE
    /\ propagateASGTags = FALSE
    /\ labels = {}
    /\ taints = << >>
    /\ asgTags = << >>
    /\ ngErrorArgs = << >>
    /\ network = << >>
    /\ launch = << >>

CtlIdle ==
    /\ cmd = << >>
    /\ ctl = << >>

StackIdle ==
    /\ cfnStacks = << >>
    /\ clusterStack = << >>

AZIdle ==
    /\ ec2 = << >>
    /\ azs = << >>

SSMIdle ==
    /\ ssm = << >>
    /\ resolved = << >>

OnceIdle ==
    /\ once = << >>
    /\ goroutines = << >>

RoleIdle ==
    /\ roleStacks = << >>
    /\ roles = << >>

DeleteIdle ==
    /\ pc = "idle"
    /\ force = FALSE
    /\ wait = FALSE
    /\ describeErr = "nil"
    /\ clusterOperable = FALSE
    /\ oidcSupported = TRUE
    /\ clientSet = FALSE
    /\ allStacks = << >>
    /\ nodeGroups = << >>
    /\ profileNames = << >>
    /\ tasks = << >>
    /\ tasksFor = "-"
    /\ calls = << >>
    /\ phases = {}
    /\ warnings = {}
    /\ result = "running"
    /\ failedAt = "-"
    /\ drainFailed = FALSE
    /\ drainInput = {}
    /\ stackStatus = << >>
    /\ ngType = << >>
    /\ eksNodegroups = << >>
    /\ fargateProfiles = {}
    /\ clusterStatus = "ACTIVE"
    /\ sshKeysDeleted = FALSE
    /\ kubeconfigDeleted = FALSE
    /\ elbCleaned = FALSE
    /\ handled = << >>
    /\ cni = << >>
    /\ ngWait = << >>
    /\ listProfiles = "-"

\* what DescribeCluster may answer: no error, resource-not-found, another error
DescribeErrors == {"nil", "ResourceNotFoundException", "AccessDeniedException"}

\* deleteIAMAndOIDC has not computed its sub-trees
NoSubTrees == [built |-> FALSE, oidc |-> 0, addon |-> 0]

\* no wait condition was built, no poll was made
NoCondition == [Timeout |-> 0, Interval |-> 0]

NoPoll == [polled |-> FALSE, nodegroups |-> << >>, listErr |-> "nil", done |-> FALSE, err |-> "nil"]

\* a Delete call about to start: the cluster has node groups among ngs and
\* Fargate profiles among profiles only; the provider's wait timeout is among
\* timeouts, the caller's waitInterval among intervals, and a poll of
\* ListNodegroups is answered with an error among pollErrs
DeleteInputsPolling(ngs, forces, waits, describeErrs, fargateStatuses, profiles, cniAnswers, timeouts, intervals, pollErrs) ==
    /\ \E to \in timeouts, iv \in intervals, pe \in pollErrs :
            ngWait = [WaitTimeout |-> to, waitInterval |-> iv, pollErr |-> pe,
                      condition |-> NoCondition, last |-> NoPoll]
    /\ pc = "checkClusterExists"
    /\ listProfiles = "-"
    /\ force \in forces
    /\ wait \in waits
    /\ describeErr \in describeErrs
    /\ clusterOperable = FALSE
    /\ oidcSupported = TRUE
    /\ clientSet = FALSE
    /\ allStacks = << >>
    /\ nodeGroups = << >>
    /\ profileNames = << >>
    /\ tasks = [nodegroups |-> << >>, iam |-> << >>, errs |-> << >>, subTrees |-> NoSubTrees]
    /\ tasksFor = "-"
    /\ calls = << >>
    /\ phases = {}
    /\ warnings = {}
    /\ result = "running"
    /\ failedAt = "-"
    /\ handled = NotHandled
    /\ \E answer \in cniAnswers :
            cni = [addonErr |-> answer[1], daemonSetErr |-> answer[2], debug |-> << >>]
    /\ drainFailed = FALSE
    /\ drainInput = {}
    /\ ngType \in [NgNames -> {"none", "managed", "unmanaged"}]
    /\ \E fs \in fargateStatuses :
            stackStatus =
                [s \in StackIds |->
                    IF s = FargateStackId THEN fs
                    ELSE IF ngType[s[2]] = "none" THEN "NONE" ELSE "CREATE_COMPLETE"]
    \* a managed node-group stack owns a node group of the control plane, a
    \* self-managed one does not; a node group without a stack is unowned
    /\ eksNodegroups \in [NgNames -> {"absent", "ACTIVE"}]
    /\ \A n \in NgNames :
          /\ ngType[n] = "managed" => eksNodegroups[n] = "ACTIVE"
          /\ ngType[n] = "unmanaged" => eksNodegroups[n] = "absent"
          /\ n \notin ngs => ngType[n] = "none" /\ eksNodegroups[n] = "absent"
    /\ fargateProfiles \in [Profiles -> {"absent", "ACTIVE"}]
    /\ \A p \in Profiles \ profiles : fargateProfiles[p] = "absent"
    \* DescribeCluster answers resource-not-found for a cluster that is not there
    /\ clusterStatus = IF describeErr = "ResourceNotFoundException" THEN "NONE" ELSE "ACTIVE"
    /\ sshKeysDeleted = FALSE
    /\ kubeconfigDeleted = FALSE
    /\ elbCleaned = FALSE

\* durations in minutes: the default wait timeout and poll interval, and others
WaitTimeouts == {25, 40}

WaitIntervals == {20, 25}

\* what a poll of ListNodegroups may be answered
PollErrors == {"nil", "AccessDeniedException"}

DeleteInputs(ngs, forces, waits, describeErrs, fargateStatuses, profiles, cniAnswers) ==
    DeleteInputsPolling(ngs, forces, waits, describeErrs, fargateStatuses, profiles, cniAnswers,
                        {25}, {20}, {"nil"})

\* what DeleteAddon and the deletion of the aws-node DaemonSet may answer
CniAnswers == {"nil", "ResourceNotFoundException", "InternalFailure"} \X {"nil", "Forbidden"}

DeleteInit ==
    DeleteInputs(1..MaxNodeGroups, BOOLEAN, BOOLEAN, DescribeErrors,
                 {"NONE", "CREATE_COMPLETE"},
                 1..MaxProfiles, {<<"nil", "nil">>})

\* Delete calls that differ in the node groups only, for the runs of the
\* node-group task tree with MaxLeaves leaves
DeleteTreeInit ==
    DeleteInputs(NgNames, {FALSE}, {TRUE}, {"nil"}, {"NONE"}, {}, {<<"nil", "nil">>})

\* Delete calls on clusters of up to MaxLoopProfiles Fargate profiles, for the
\* runs of the profile loop
DeleteProfilesInit ==
    DeleteInputs(1..MaxLoopNodeGroups, BOOLEAN, {TRUE}, {"nil"},
                 {"NONE", "CREATE_COMPLETE"}, Profiles, {<<"nil", "nil">>})

\* Delete calls that differ in what the CNI removal is answered, on clusters
\* of up to MaxLoopNodeGroups node groups
DeleteCNIInit ==
    DeleteInputs(1..MaxLoopNodeGroups, BOOLEAN, BOOLEAN, {"nil"}, {"NONE", "CREATE_COMPLETE"},
                 {}, CniAnswers)

\* Delete calls that differ in the wait timeout, the poll interval and in what
\* the polls of ListNodegroups are answered, on clusters of up to MaxNodeGroups
\* node groups
DeleteWaitInit ==
    DeleteInputsPolling(1..MaxNodeGroups, {FALSE}, BOOLEAN, {"nil"}, {"NONE", "CREATE_COMPLETE"},
                        {}, {<<"nil", "nil">>}, WaitTimeouts, WaitIntervals, PollErrors)

\* ------------------------------------------------------------------------
\* Delete, steps (1)-(4)
\* ------------------------------------------------------------------------
\* a test that takes no error for resource-not-found
isNotFoundNever(err) == FALSE

isNotFound(err) == err = "ResourceNotFoundException"

\* the error is returned as 'cluster "<name>" not found' (failedAt
\* "checkClusterExists") or wrapped in 'error describing cluster "<name>"'
\* (failedAt "DescribeCluster")
checkClusterExists ==
    /\ pc = "checkClusterExists"
    /\ phases' = phases \cup {"checkClusterExists"}
    /\ IF describeErr # "nil"
       THEN IF isNotFound(describeErr)
            THEN Fail("checkClusterExists")
            ELSE Fail("DescribeCluster")
       ELSE Goto("CanOperate")
    /\ UNCHANGED <<cfgVars, oidcSupported, clusterOperable, clientSet, allStacks, nodeGroups,
                   profileNames, treeVars, warnings, drainFailed, drainInput,
                   calls, remoteVars>>
    /\ UNCHANGED handled
    /\ UNCHANGED cni
    /\ UNCHANGED ngWait
    /\ UNCHANGED listProfiles
    /\ UNCHANGED notDelete

CanOperate ==
    /\ pc = "CanOperate"
    /\ phases' = phases \cup {"CanOperate"}
    /\ \/ /\ clusterOperable' \in BOOLEAN
          /\ warnings' = warnings
       \/ /\ clusterOperable' = FALSE
          /\ warnings' = warnings \cup {"CanOperate"}
    /\ Goto("ListNodeGroupStacks")
    /\ UNCHANGED <<cfgVars, oidcSupported, clientSet, allStacks, nodeGroups, profileNames, treeVars,
                   drainFailed, drainInput, calls, remoteVars>>
    /\ UNCHANGED handled
    /\ UNCHANGED cni
    /\ UNCHANGED ngWait
    /\ UNCHANGED listProfiles
    /\ UNCHANGED notDelete

\* the stack manager's listing of the node-group stacks of the cluster
NodeGroupStacks ==
    LET present == SelectSeq(NgSeq, LAMBDA n : stackStatus[NgStackId(n)] \notin {"NONE", "DELETE_COMPLETE"})
    IN  [i \in 1..Len(present) |-> [NodeGroupName |-> present[i], Type |-> ngType[present[i]]]]

\* a Delete that builds the client set and drains whatever CanOperate said
NeedsClientSetAlways(operable) == TRUE

\* the client set is built, and the node groups drained, on an operable
\* cluster only
NeedsClientSet(operable) == operable

ListNodeGroupStacks ==
    /\ pc = "ListNodeGroupStacks"
    /\ phases' = phases \cup {"ListNodeGroupStacks"}
    /\ \/ /\ allStacks' = NodeGroupStacks
          /\ Goto(IF NeedsClientSet(clusterOperable) THEN "newClientSet"
                  ELSE "deleteSharedResources")
       \/ /\ Fail("ListNodeGroupStacks")
          /\ UNCHANGED allStacks
    /\ UNCHANGED <<cfgVars, oidcSupported, clusterOperable, clientSet, nodeGroups, profileNames,
                   treeVars, warnings, drainFailed, drainInput, calls, remoteVars>>
    /\ UNCHANGED handled
    /\ UNCHANGED cni
    /\ UNCHANGED ngWait
    /\ UNCHANGED listProfiles
    /\ UNCHANGED notDelete

newClientSet ==
    /\ pc = "newClientSet"
    /\ phases' = phases \cup {"newClientSet"}
    /\ \/ /\ clientSet' = TRUE
          /\ Goto("drainAllNodeGroups")
       \/ /\ Fail("newClientSet")
          /\ UNCHANGED clientSet
    /\ UNCHANGED <<cfgVars, oidcSupported, clusterOperable, allStacks, nodeGroups, profileNames,
                   treeVars, warnings, drainFailed, drainInput, calls, remoteVars>>
    /\ UNCHANGED handled
    /\ UNCHANGED cni
    /\ UNCHANGED ngWait
    /\ UNCHANGED listProfiles
    /\ UNCHANGED notDelete

\* every node group that has a stack
NodeGroupsOfAnyType(stacks) == {stacks[i].NodeGroupName : i \in 1..Len(stacks)}

\* the node groups handed to Drain: the stacks of type unmanaged
UnmanagedNodeGroups(stacks) ==
    {stacks[i].NodeGroupName : i \in {j \in 1..Len(stacks) : stacks[j].Type = "unmanaged"}}

\* a drain error that aborts Delete whatever the force flag
DrainErrorAlwaysFatal(f) == TRUE

\* what Delete does with an error of drainAllNodeGroups
DrainErrorIsFatal(f) == ~f

drainAllNodeGroups ==
    /\ pc = "drainAllNodeGroups"
    /\ phases' = phases \cup {"drainAllNodeGroups"}
    /\ IF Len(allStacks) = 0
       THEN /\ Goto("deleteSharedResources")
            /\ UNCHANGED <<calls, warnings, drainFailed, drainInput>>
       ELSE /\ Issue("Drain", None)
            /\ drainInput' = UnmanagedNodeGroups(allStacks)
            /\ \/ /\ Goto("attemptVpcCniDeletion")
                  /\ UNCHANGED <<warnings, drainFailed>>
               \/ /\ drainFailed' = TRUE
                  /\ IF DrainErrorIsFatal(force)
                     THEN /\ Fail("drainAllNodeGroups")
                          /\ UNCHANGED warnings
                     ELSE /\ warnings' = warnings \cup {"drainAllNodeGroups"}
                          /\ Goto("deleteSharedResources")
    /\ UNCHANGED <<cfgVars, oidcSupported, clusterOperable, clientSet, allStacks, nodeGroups,
                   profileNames, treeVars, remoteVars>>
    /\ UNCHANGED handled
    /\ UNCHANGED cni
    /\ UNCHANGED ngWait
    /\ UNCHANGED listProfiles
    /\ UNCHANGED notDelete

\* a CNI removal that gives up when DeleteAddon fails
DeletesDaemonSetAfterAddonOnly(addonErr) == addonErr = "nil"

\* the deletion of the DaemonSet is attempted whatever DeleteAddon returned
DeletesDaemonSet(addonErr) == TRUE

\* the Debug lines of attemptVpcCniDeletion
CniDebugLines(addonErr, daemonSetErr) ==
    <<"deleting EKS addon if it exists">>
    \o (IF addonErr = "nil" THEN << >>
        ELSE IF addonErr = "ResourceNotFoundException" THEN <<"EKS addon does not exist">>
        ELSE <<"failed to delete addon">>)
    \o (IF DeletesDaemonSet(addonErr)
        THEN <<"deleting kube-system/aws-node DaemonSet">>
             \o (IF daemonSetErr = "nil" THEN << >>
                 ELSE <<"failed to delete kube-system/aws-node DaemonSet">>)
        ELSE << >>)

\* attemptVpcCniDeletion has no result: both errors are logged only
attemptVpcCniDeletion ==
    /\ pc = "attemptVpcCniDeletion"
    /\ calls' = IF DeletesDaemonSet(cni.addonErr)
                THEN Issued(Issued(calls, Call("DeleteAddon", <<"vpc-cni", 0>>)),
                            Call("DeleteDaemonSet", <<"aws-node", 0>>))
                ELSE Issued(calls, Call("DeleteAddon", <<"vpc-cni", 0>>))
    /\ cni' = [cni EXCEPT !.debug = CniDebugLines(cni.addonErr, cni.daemonSetErr)]
    /\ Goto("deleteSharedResources")
    /\ UNCHANGED <<localVars, remoteVars>>
    /\ UNCHANGED handled
    /\ UNCHANGED ngWait
    /\ UNCHANGED listProfiles
    /\ UNCHANGED notDelete

\* ------------------------------------------------------------------------
\* Remote stack service: DeleteStack and lookups
\* ------------------------------------------------------------------------
\* a stack the stack manager's listings still show
StackListed(id) == stackStatus[id] \notin {"NONE", "DELETE_COMPLETE"}

\* GetFargateStack: the Fargate stack, or nil
GetFargateStack == IF StackListed(FargateStackId) THEN FargateStackId ELSE None

\* the remote effect of an accepted DeleteStack
DeleteStackAccepted(id) ==
    stackStatus' = [stackStatus EXCEPT ![id] = "DELETE_IN_PROGRESS"]

\* the remote effect of a stack deletion reaching the terminal state st; the
\* node group of a managed node-group stack goes with the stack
StackDeletionReaches(id, st) ==
    /\ stackStatus' = [stackStatus EXCEPT ![id] = st]
    /\ eksNodegroups' =
          IF st = "DELETE_COMPLETE" /\ id[1] = "ng" /\ ngType[id[2]] = "managed"
          THEN [eksNodegroups EXCEPT ![id[2]] = "absent"]
          ELSE eksNodegroups

\* ------------------------------------------------------------------------
\* Delete, step (5)-(6): deleteSharedResources
\* ------------------------------------------------------------------------
\* a shared-resource error that is logged and skipped without the force flag too
SharedErrorNeverFatal(f) == FALSE

\* what Delete does with an error of deleteSharedResources
SharedErrorIsFatal(f) == ~f

\* deleteSharedResources returned err
SharedFail ==
    IF SharedErrorIsFatal(force)
    THEN /\ Fail("deleteSharedResources")
         /\ UNCHANGED warnings
    ELSE /\ warnings' = warnings \cup {"deleteSharedResources"}
         /\ Goto("deleteFargateRoleIfExists")

SharedGoto(next) ==
    /\ Goto(next)
    /\ UNCHANGED warnings

\* what ListProfiles may answer: the names, an unauthorized error, another error
ListProfilesErrors == {"nil", "unauthorized", "InternalFailure"}

\* a test that takes no error for an unauthorized one
IsUnauthorizedErrorNever(err) == FALSE

\* fargate.IsUnauthorizedError
IsUnauthorizedError(err) == err = "unauthorized"

deleteSharedResources ==
    /\ pc = "deleteSharedResources"
    /\ phases' = phases \cup {"deleteSharedResources"}
    /\ IF clusterOperable
       \* deleteFargateProfiles: ListProfiles answers the names, an
       \* unauthorized error that is ignored, or an error that is returned
       THEN \E err \in ListProfilesErrors :
               /\ listProfiles' = err
               /\ IF err = "nil"
                  THEN /\ profileNames' =
                            SelectSeq(ProfileSeq, LAMBDA p : fargateProfiles[p] # "absent")
                       /\ SharedGoto("DeleteProfile")
                  ELSE IF IsUnauthorizedError(err)
                  THEN /\ SharedGoto("deleteDeprecatedStacks")
                       /\ UNCHANGED profileNames
                  ELSE /\ SharedFail
                       /\ UNCHANGED profileNames
       ELSE /\ SharedGoto("deleteDeprecatedStacks")
            /\ UNCHANGED <<profileNames, listProfiles>>
    /\ UNCHANGED <<cfgVars, oidcSupported, clusterOperable, clientSet, allStacks, nodeGroups, treeVars,
                   drainFailed, drainInput, calls, remoteVars>>
    /\ UNCHANGED handled
    /\ UNCHANGED cni
    /\ UNCHANGED ngWait
    /\ UNCHANGED notDelete

\* a DeleteProfile that returns once the deletion is accepted
DeleteProfileReturnsAtOnce(name) == FALSE

\* the wait argument deleteFargateProfiles gives to DeleteProfile
DeleteProfileWaits(name) == TRUE

\* one round of the loop over profileNames: the call is refused, or accepted
\* and (waiting) seen to complete, or accepted and the wait times out
DeleteProfile ==
    /\ pc = "DeleteProfile"
    /\ IF profileNames = << >>
       THEN /\ SharedGoto("deleteFargateStack")
            /\ UNCHANGED <<calls, profileNames, fargateProfiles>>
       ELSE /\ Issue("DeleteProfile", <<"profile", Head(profileNames)>>)
            /\ \/ /\ fargateProfiles' =
                        [fargateProfiles EXCEPT ![Head(profileNames)] =
                            IF DeleteProfileWaits(Head(profileNames))
                            THEN "absent" ELSE "DELETING"]
                  /\ profileNames' = Tail(profileNames)
                  /\ SharedGoto("DeleteProfile")
               \/ /\ DeleteProfileWaits(Head(profileNames))
                  /\ fargateProfiles' =
                        [fargateProfiles EXCEPT ![Head(profileNames)] = "DELETING"]
                  /\ SharedFail
                  /\ UNCHANGED profileNames
               \/ /\ SharedFail
                  /\ UNCHANGED <<profileNames, fargateProfiles>>
    /\ UNCHANGED <<cfgVars, oidcSupported, clusterOperable, clientSet, allStacks, nodeGroups, treeVars,
                   phases, drainFailed, drainInput, stackStatus, ngType, eksNodegroups,
                   clusterStatus, sshKeysDeleted, kubeconfigDeleted, elbCleaned>>
    /\ UNCHANGED handled
    /\ UNCHANGED cni
    /\ UNCHANGED ngWait
    /\ UNCHANGED listProfiles
    /\ UNCHANGED notDelete

deleteFargateStack ==
    /\ pc = "deleteFargateStack"
    /\ \/ /\ SharedFail
          /\ UNCHANGED <<calls, stackStatus>>
       \/ /\ GetFargateStack = None
          /\ SharedGoto("deleteDeprecatedStacks")
          /\ UNCHANGED <<calls, stackStatus>>
       \/ /\ GetFargateStack # None
          /\ Issue("DeleteStack", FargateStackId)
          /\ \/ /\ DeleteStackAccepted(FargateStackId)
                /\ SharedGoto("deleteDeprecatedStacks")
             \/ /\ SharedFail
                /\ UNCHANGED stackStatus
    /\ UNCHANGED <<cfgVars, oidcSupported, clusterOperable, clientSet, allStacks, nodeGroups, profileNames,
                   treeVars, phases, drainFailed, drainInput, ngType, eksNodegroups,
                   fargateProfiles, clusterStatus, sshKeysDeleted, kubeconfigDeleted,
                   elbCleaned>>
    /\ UNCHANGED handled
    /\ UNCHANGED cni
    /\ UNCHANGED ngWait
    /\ UNCHANGED listProfiles
    /\ UNCHANGED notDelete

\* deleteDeprecatedStacks returns (hasDeprecatedStacks, err); count is the Len()
\* of the tree DeleteTasksForDeprecatedStacks built
deleteDeprecatedStacks ==
    /\ pc = "deleteDeprecatedStacks"
    /\ \/ /\ SharedFail
          /\ UNCHANGED <<calls, handled>>
       \/ \E count \in 0..1 :
            IF count > 0
            THEN /\ Issue("DeleteStack", DeprecatedStackId)
                 /\ \/ /\ SharedGoto("deleteFargateRoleIfExists")
                       /\ UNCHANGED handled
                    \/ /\ SharedFail
                       /\ handled' = handleErrors(<<<<"deprecated stack", 0>>>>,
                                                   "deprecated stacks")
            ELSE /\ SharedGoto("DeleteKeys")
                 /\ UNCHANGED <<calls, handled>>
    /\ UNCHANGED <<cfgVars, oidcSupported, clusterOperable, clientSet, allStacks, nodeGroups, profileNames,
                   treeVars, phases, drainFailed, drainInput, remoteVars>>
    /\ UNCHANGED cni
    /\ UNCHANGED ngWait
    /\ UNCHANGED listProfiles
    /\ UNCHANGED notDelete

DeleteKeys ==
    /\ pc = "DeleteKeys"
    /\ sshKeysDeleted' = TRUE
    /\ kubeconfigDeleted' = TRUE
    /\ SharedGoto(IF clusterOperable THEN "elbCleanup" ELSE "deleteFargateRoleIfExists")
    /\ UNCHANGED <<cfgVars, oidcSupported, clusterOperable, clientSet, allStacks, nodeGroups, profileNames,
                   treeVars, phases, drainFailed, drainInput, calls, stackStatus, ngType,
                   eksNodegroups, fargateProfiles, clusterStatus, elbCleaned>>
    /\ UNCHANGED handled
    /\ UNCHANGED cni
    /\ UNCHANGED ngWait
    /\ UNCHANGED listProfiles
    /\ UNCHANGED notDelete

elbCleanup ==
    /\ pc = "elbCleanup"
    /\ \/ /\ elbCleaned' = TRUE
          /\ SharedGoto("deleteFargateRoleIfExists")
       \/ /\ SharedFail
          /\ UNCHANGED elbCleaned
    /\ UNCHANGED <<cfgVars, oidcSupported, clusterOperable, clientSet, allStacks, nodeGroups, profileNames,
                   treeVars, phases, drainFailed, drainInput, calls, stackStatus, ngType,
                   eksNodegroups, fargateProfiles, clusterStatus, sshKeysDeleted,
                   kubeconfigDeleted>>
    /\ UNCHANGED handled
    /\ UNCHANGED cni
    /\ UNCHANGED ngWait
    /\ UNCHANGED listProfiles
    /\ UNCHANGED notDelete

\* ------------------------------------------------------------------------
\* Delete, step (7): deleteFargateRoleIfExists
\* ------------------------------------------------------------------------
deleteFargateRoleIfExists ==
    /\ pc = "deleteFargateRoleIfExists"
    /\ phases' = phases \cup {"deleteFargateRoleIfExists"}
    /\ \/ /\ Fail("deleteFargateRoleIfExists")
          /\ UNCHANGED <<calls, stackStatus>>
       \/ /\ GetFargateStack = None
          /\ Goto("deleteAndWaitForNodegroupsDeletion")
          /\ UNCHANGED <<calls, stackStatus>>
       \/ /\ GetFargateStack # None
          /\ Issue("DeleteStack", FargateStackId)
          /\ \/ /\ DeleteStackAccepted(FargateStackId)
                /\ Goto("deleteAndWaitForNodegroupsDeletion")
             \/ /\ Fail("deleteFargateRoleIfExists")
                /\ UNCHANGED stackStatus
    /\ UNCHANGED <<cfgVars, oidcSupported, clusterOperable, clientSet, allStacks, nodeGroups, profileNames,
                   treeVars, warnings, drainFailed, drainInput, ngType, eksNodegroups,
                   fargateProfiles, clusterStatus, sshKeysDeleted, kubeconfigDeleted,
                   elbCleaned>>
    /\ UNCHANGED handled
    /\ UNCHANGED cni
    /\ UNCHANGED ngWait
    /\ UNCHANGED listProfiles
    /\ UNCHANGED notDelete

\* ------------------------------------------------------------------------
\* Task trees (one level: a tree and its leaf tasks)
\* ------------------------------------------------------------------------
Task(kind, name, w) == [kind |-> kind, name |-> name, wait |-> w, status |-> "pending"]

Finished(t) == t.status \in {"ok", "err"}

AllFinished(tree) == \A i \in 1..Len(tree) : Finished(tree[i])

Errs(tree) == {i \in 1..Len(tree) : tree[i].status = "err"}

\* the list DoAllSync returns: one error per failed leaf, named by its leaf
ErrorsOf(tree) ==
    LET failed == SelectSeq(tree, LAMBDA t : t.status = "err")
    IN  [i \in 1..Len(failed) |-> <<failed[i].kind, failed[i].name>>]

\* a DoAllSync that returns as soon as one leaf has failed
ReturnsOnFirstError(tree) == AllFinished(tree) \/ Errs(tree) # {}

\* DoAllSync returns when every leaf has finished
Returns(tree) == AllFinished(tree)

\* the Parallel flag of the two trees Delete runs
Parallel(tree) == tree = "nodegroups"

\* a scheduling that lets the leaves of every tree run side by side
StartsInAnyOrder(tree, i) == TRUE

\* the leaves of a parallel tree start in any order, a leaf of a sequential
\* tree once the leaves before it have finished, failed or not
Starts(tree, i) ==
    Parallel(tree) \/ \A j \in 1..(i - 1) : Finished(tasks[tree][j])

\* the stack a stack-deleting task works on
TaskStack(t) ==
    IF t.kind = "stack" THEN NgStackId(t.name)
    ELSE IF t.kind = "iamserviceaccount" THEN IAMServiceAccountStackId
    ELSE AddonIAMStackId

\* node-group stacks are followed to their terminal state; the IAM stacks are not
Tracked(t) == t.kind = "stack"

\* the wait condition of an unowned node-group deletion
UnownedNgsDeleted == \A n \in NgNames : eksNodegroups[n] = "absent"

\* ListNodegroups: the managed node groups the control plane knows
ListNodegroups == SelectSeq(NgSeq, LAMBDA n : eksNodegroups[n] # "absent")

\* what a poll of ListNodegroups is answered: the listing, or an error and no
\* listing
ListNodegroupsAnswer(pollErr) ==
    IF pollErr = "nil" THEN [nodegroups |-> ListNodegroups, err |-> "nil"]
    ELSE [nodegroups |-> << >>, err |-> pollErr]

\* a condition that looks at the listing only
ConditionIgnoringListError(answer) ==
    [done |-> Len(answer.nodegroups) = 0, err |-> "nil"]

\* the Condition of waitForUnownedNgsDeletion, evaluated on what ListNodegroups
\* answered
Condition(answer) ==
    IF answer.err # "nil" THEN [done |-> FALSE, err |-> answer.err]
    ELSE IF Len(answer.nodegroups) = 0 THEN [done |-> TRUE, err |-> "nil"]
    ELSE [done |-> FALSE, err |-> "nil"]

\* waitForUnownedNgsDeletion: the DeleteWaitCondition's Timeout and Interval
waitForUnownedNgsDeletion(providerTimeout, interval) ==
    [Timeout |-> providerTimeout, Interval |-> interval]

\* one evaluation of the wait condition
Polled(answer) ==
    [polled |-> TRUE, nodegroups |-> answer.nodegroups, listErr |-> answer.err,
     done |-> Condition(answer).done, err |-> Condition(answer).err]

SetStatus(i, st) ==
    tasks' = [tasks EXCEPT ![tasksFor][i].status = st]

\* a leaf task issues its remote call
TaskStart(i) ==
    /\ pc = "DoAllSync"
    /\ i \in 1..Len(tasks[tasksFor])
    /\ tasks[tasksFor][i].status = "pending"
    /\ Starts(tasksFor, i)
    /\ LET t == tasks[tasksFor][i]
       IN  IF t.kind = "unowned"
           THEN /\ Issue("DeleteNodegroup", NgStackId(t.name))
                /\ \/ /\ eksNodegroups' = [eksNodegroups EXCEPT ![t.name] = "DELETING"]
                      /\ SetStatus(i, "running")
                   \/ /\ SetStatus(i, "err")
                      /\ UNCHANGED eksNodegroups
                /\ UNCHANGED stackStatus
           ELSE /\ Issue("DeleteStack", TaskStack(t))
                /\ \/ /\ IF Tracked(t)
                         THEN DeleteStackAccepted(TaskStack(t))
                         ELSE UNCHANGED stackStatus
                      /\ SetStatus(i, "running")
                   \/ /\ SetStatus(i, "err")
                      /\ UNCHANGED stackStatus
                /\ UNCHANGED eksNodegroups
    /\ UNCHANGED <<pc, result, failedAt, cfgVars, oidcSupported, clusterOperable, clientSet, allStacks,
                   nodeGroups, profileNames, tasksFor, phases, warnings, drainFailed,
                   drainInput, ngType, fargateProfiles, clusterStatus, sshKeysDeleted,
                   kubeconfigDeleted, elbCleaned>>
    /\ UNCHANGED handled
    /\ UNCHANGED cni
    /\ UNCHANGED ngWait
    /\ UNCHANGED listProfiles
    /\ UNCHANGED notDelete

\* a leaf task returns: at once without wait; with wait when the stack has
\* reached a terminal state (the waiter's last poll sees the deletion end) or
\* on timeout; an unowned node-group deletion when its wait condition holds
\* or on timeout
TaskFinish(i) ==
    /\ pc = "DoAllSync"
    /\ i \in 1..Len(tasks[tasksFor])
    /\ tasks[tasksFor][i].status = "running"
    /\ ngWait' = IF tasks[tasksFor][i].kind = "unowned"
                 THEN [ngWait EXCEPT !.last = Polled(ListNodegroupsAnswer(ngWait.pollErr))]
                 ELSE ngWait
    /\ LET t == tasks[tasksFor][i]
           st == stackStatus[TaskStack(t)]
           answer == ListNodegroupsAnswer(ngWait.pollErr)
       IN  IF t.kind = "unowned"
           \* the condition is polled: done ends the wait, an error fails the
           \* task, and a wait that is not done goes on or times out
           THEN /\ IF Condition(answer).err # "nil"
                   THEN SetStatus(i, "err")
                   ELSE IF Condition(answer).done
                   THEN SetStatus(i, "ok")
                   ELSE \/ SetStatus(i, "running")
                        \/ SetStatus(i, "err")
                /\ UNCHANGED <<stackStatus, eksNodegroups>>
           ELSE IF ~t.wait
                THEN /\ SetStatus(i, "ok")
                     /\ UNCHANGED <<stackStatus, eksNodegroups>>
                ELSE IF Tracked(t)
                THEN \/ /\ st \in {"DELETE_IN_PROGRESS", "DELETE_COMPLETE"}
                        /\ StackDeletionReaches(TaskStack(t), "DELETE_COMPLETE")
                        /\ SetStatus(i, "ok")
                     \/ /\ st \in {"DELETE_IN_PROGRESS", "DELETE_FAILED"}
                        /\ StackDeletionReaches(TaskStack(t), "DELETE_FAILED")
                        /\ SetStatus(i, "err")
                     \/ /\ st = "DELETE_IN_PROGRESS"
                        /\ SetStatus(i, "err")
                        /\ UNCHANGED <<stackStatus, eksNodegroups>>
                ELSE /\ \/ SetStatus(i, "ok")
                        \/ SetStatus(i, "err")
                     /\ UNCHANGED <<stackStatus, eksNodegroups>>
    /\ UNCHANGED <<pc, result, failedAt, cfgVars, oidcSupported, clusterOperable, clientSet, allStacks,
                   nodeGroups, profileNames, tasksFor, phases, warnings, drainFailed,
                   drainInput, calls, ngType, fargateProfiles, clusterStatus,
                   sshKeysDeleted, kubeconfigDeleted, elbCleaned>>
    /\ UNCHANGED handled
    /\ UNCHANGED cni
    /\ UNCHANGED listProfiles
    /\ UNCHANGED notDelete

\* ------------------------------------------------------------------------
\* Delete, step (8): deleteAndWaitForNodegroupsDeletion
\* ------------------------------------------------------------------------
\* the caller's wait flag handed on to NewTasksToDeleteNodeGroups
NodeGroupDeletionWaitOfCaller(w) == w

\* the wait argument Delete gives to NewTasksToDeleteNodeGroups
NodeGroupDeletionWait(w) == TRUE

\* NewTasksToDeleteNodeGroups: one task per node-group stack
NewTasksToDeleteNodeGroups(stacks, w) ==
    [i \in 1..Len(stacks) |-> Task("stack", stacks[i].NodeGroupName, w)]

\* isUnowned answering true on the first stack of another name
isUnownedOnFirstMismatch(n, stacks) ==
    \E i \in 1..Len(stacks) : stacks[i].NodeGroupName # n

isUnowned(n, stacks) ==
    \A i \in 1..Len(stacks) : stacks[i].NodeGroupName # n

\* one NewTaskToDeleteUnownedNodeGroup per unowned node group of the remote list
UnownedNodeGroupTasks(ngs, stacks) ==
    LET unowned == SelectSeq(ngs, LAMBDA n : isUnowned(n, stacks))
    IN  [i \in 1..Len(unowned) |-> Task("unowned", unowned[i], TRUE)]

deleteAndWaitForNodegroupsDeletion ==
    /\ pc = "deleteAndWaitForNodegroupsDeletion"
    /\ phases' = phases \cup {"deleteAndWaitForNodegroupsDeletion"}
    /\ \/ /\ Fail("deleteAndWaitForNodegroupsDeletion")
          /\ UNCHANGED <<nodeGroups, tasks, tasksFor, ngWait>>
       \/ /\ nodeGroups' = ListNodegroups
          /\ IF Len(allStacks) = 0 /\ Len(ListNodegroups) = 0
             THEN /\ Goto("deleteIAMAndOIDC")
                  /\ UNCHANGED <<tasks, tasksFor, ngWait>>
             ELSE \/ /\ Fail("deleteAndWaitForNodegroupsDeletion")
                     /\ UNCHANGED <<tasks, tasksFor, ngWait>>
                  \/ /\ tasks' = [tasks EXCEPT !.nodegroups =
                            NewTasksToDeleteNodeGroups(allStacks, NodeGroupDeletionWait(wait))
                                \o UnownedNodeGroupTasks(ListNodegroups, allStacks)]
                     \* each unowned node group's task is given its own
                     \* waitForUnownedNgsDeletion(waitInterval)
                     /\ ngWait' =
                            IF Len(UnownedNodeGroupTasks(ListNodegroups, allStacks)) > 0
                            THEN [ngWait EXCEPT !.condition =
                                    waitForUnownedNgsDeletion(ngWait.WaitTimeout,
                                                              ngWait.waitInterval)]
                            ELSE ngWait
                     /\ tasksFor' = "nodegroups"
                     /\ Goto("DoAllSync")
    /\ UNCHANGED <<cfgVars, oidcSupported, clusterOperable, clientSet, allStacks, profileNames, warnings,
                   drainFailed, drainInput, calls, remoteVars>>
    /\ UNCHANGED handled
    /\ UNCHANGED cni
    /\ UNCHANGED listProfiles
    /\ UNCHANGED notDelete

\* DoAllSync of the node-group tree has returned
nodegroupsDeleted ==
    /\ pc = "DoAllSync"
    /\ tasksFor = "nodegroups"
    /\ Returns(tasks.nodegroups)
    /\ tasksFor' = "-"
    /\ tasks' = [tasks EXCEPT !.errs = ErrorsOf(tasks.nodegroups)]
    /\ IF Len(ErrorsOf(tasks.nodegroups)) > 0
       THEN /\ handled' = handleErrors(ErrorsOf(tasks.nodegroups), "nodegroup(s)")
            /\ Fail("deleteAndWaitForNodegroupsDeletion")
       ELSE /\ Goto("deleteIAMAndOIDC")
            /\ UNCHANGED handled
    /\ UNCHANGED <<cfgVars, oidcSupported, clusterOperable, clientSet, allStacks, nodeGroups, profileNames,
                   phases, warnings, drainFailed, drainInput, calls, remoteVars>>
    /\ UNCHANGED cni
    /\ UNCHANGED ngWait
    /\ UNCHANGED listProfiles
    /\ UNCHANGED notDelete

\* ------------------------------------------------------------------------
\* Delete, step (9): deleteIAMAndOIDC
\* ------------------------------------------------------------------------
\* what Delete does with an error of deleteIAMAndOIDC
IAMErrorIsFatal(f) == ~f

IAMFail ==
    IF IAMErrorIsFatal(force)
    THEN /\ Fail("deleteIAMAndOIDC")
         /\ UNCHANGED warnings
    ELSE /\ warnings' = warnings \cup {"deleteIAMAndOIDC"}
         /\ Goto("deleteCluster")

\* a tree that gets the service-account/OIDC sub-tree also when the cluster is
\* not operable or OIDC is not supported
IAMTasksWhateverOIDC(operable, supported, oidcLen, addonLen, w) ==
    (IF oidcLen > 0 THEN <<Task("iamserviceaccount", 0, TRUE)>> ELSE << >>)
    \o (IF addonLen > 0 THEN <<Task("addon-iam", 0, w)>> ELSE << >>)

\* the children appended to the IAM/OIDC tree: only sub-trees with Len() > 0
IAMTasks(operable, supported, oidcLen, addonLen, w) ==
    (IF operable /\ supported /\ oidcLen > 0
        THEN <<Task("iamserviceaccount", 0, TRUE)>> ELSE << >>)
    \o (IF addonLen > 0 THEN <<Task("addon-iam", 0, w)>> ELSE << >>)

\* Len() of the two sub-trees deleteIAMAndOIDC computed; the service-account
\* and OIDC sub-tree is computed for an operable cluster with OIDC only
SubTrees(operable, supported, oidcLen, addonLen) ==
    [built |-> TRUE, oidc |-> IF operable /\ supported THEN oidcLen ELSE 0, addon |-> addonLen]

\* a deleteIAMAndOIDC that runs its tree whatever its length
TreeIsEmptyNever(tree) == FALSE

\* tasksTree.Len() == 0
TreeIsEmpty(tree) == Len(tree) = 0

deleteIAMAndOIDC ==
    /\ pc = "deleteIAMAndOIDC"
    /\ phases' = phases \cup {"deleteIAMAndOIDC"}
    /\ \/ /\ IAMFail
          /\ UNCHANGED <<tasks, tasksFor, oidcSupported>>
       \/ \E supported \in (IF clusterOperable THEN BOOLEAN ELSE {TRUE}),
             oidcLen \in 0..1, addonLen \in 0..1 :
            LET tree == IAMTasks(clusterOperable, supported, oidcLen, addonLen, wait)
                lens == SubTrees(clusterOperable, supported, oidcLen, addonLen)
            IN  /\ oidcSupported' = supported
                /\ IF TreeIsEmpty(tree)
                   THEN /\ Goto("deleteCluster")
                        /\ tasks' = [tasks EXCEPT !.iam = tree, !.subTrees = lens]
                        /\ UNCHANGED <<tasksFor, warnings>>
                   ELSE /\ tasks' = [tasks EXCEPT !.iam = tree, !.subTrees = lens]
                        /\ tasksFor' = "iam"
                        /\ Goto("DoAllSync")
                        /\ UNCHANGED warnings
    /\ UNCHANGED <<cfgVars, clusterOperable, clientSet, allStacks, nodeGroups, profileNames,
                   drainFailed, drainInput, calls, remoteVars>>
    /\ UNCHANGED handled
    /\ UNCHANGED cni
    /\ UNCHANGED ngWait
    /\ UNCHANGED listProfiles
    /\ UNCHANGED notDelete

\* DoAllSync of the IAM/OIDC tree has returned
iamAndOIDCDeleted ==
    /\ pc = "DoAllSync"
    /\ tasksFor = "iam"
    /\ Returns(tasks.iam)
    /\ tasksFor' = "-"
    /\ tasks' = [tasks EXCEPT !.errs = ErrorsOf(tasks.iam)]
    /\ IF Len(ErrorsOf(tasks.iam)) > 0
       THEN /\ handled' = handleErrors(ErrorsOf(tasks.iam), "cluster IAM and OIDC")
            /\ IAMFail
       ELSE /\ Goto("deleteCluster")
            /\ UNCHANGED <<warnings, handled>>
    /\ UNCHANGED <<cfgVars, oidcSupported, clusterOperable, clientSet, allStacks, nodeGroups, profileNames,
                   phases, drainFailed, drainInput, calls, remoteVars>>
    /\ UNCHANGED cni
    /\ UNCHANGED ngWait
    /\ UNCHANGED listProfiles
    /\ UNCHANGED notDelete

\* ------------------------------------------------------------------------
\* Delete, steps (10)-(11): deleteCluster, checkForUndeletedStacks
\* ------------------------------------------------------------------------
\* a deleteCluster that never waits
ClusterDeletionWaitNever(w) == FALSE

\* deleteCluster waits for the deletion when its wait argument says so
ClusterDeletionWait(w) == w

deleteCluster ==
    /\ pc = "deleteCluster"
    /\ phases' = phases \cup {"deleteCluster"}
    /\ Issue("DeleteCluster", None)
    /\ \/ /\ Fail("deleteCluster")
          /\ UNCHANGED clusterStatus
       \/ /\ clusterStatus' = "DELETING"
          /\ Goto(IF ClusterDeletionWait(wait)
                  THEN "waitForClusterDeleted" ELSE "checkForUndeletedStacks")
    /\ UNCHANGED <<cfgVars, oidcSupported, clusterOperable, clientSet, allStacks, nodeGroups, profileNames,
                   treeVars, warnings, drainFailed, drainInput, stackStatus, ngType,
                   eksNodegroups, fargateProfiles, sshKeysDeleted, kubeconfigDeleted,
                   elbCleaned>>
    /\ UNCHANGED handled
    /\ UNCHANGED cni
    /\ UNCHANGED ngWait
    /\ UNCHANGED listProfiles
    /\ UNCHANGED notDelete

waitForClusterDeleted ==
    /\ pc = "waitForClusterDeleted"
    /\ \/ /\ clusterStatus = "DELETED"
          /\ Goto("checkForUndeletedStacks")
       \/ /\ clusterStatus # "DELETED"
          /\ Fail("deleteCluster")
    /\ UNCHANGED <<localVars, calls, remoteVars>>
    /\ UNCHANGED handled
    /\ UNCHANGED cni
    /\ UNCHANGED ngWait
    /\ UNCHANGED listProfiles
    /\ UNCHANGED notDelete

\* a check that passes over failed deletions too
UndeletedStacksButFailed ==
    {id \in StackIds : StackListed(id)
                        /\ stackStatus[id] \notin {"DELETE_IN_PROGRESS", "DELETE_FAILED"}}

\* the stacks checkForUndeletedStacks reports, among those the model follows
UndeletedStacks == {id \in StackIds : StackListed(id) /\ stackStatus[id] # "DELETE_IN_PROGRESS"}

checkForUndeletedStacks ==
    /\ pc = "checkForUndeletedStacks"
    /\ phases' = phases \cup {"checkForUndeletedStacks"}
    /\ \/ Fail("DescribeStacks")
       \/ /\ UndeletedStacks # {}
          /\ Fail("checkForUndeletedStacks")
       \/ /\ UndeletedStacks = {}
          /\ pc' = "done"
          /\ result' = "ok"
          /\ UNCHANGED failedAt
    /\ UNCHANGED <<cfgVars, oidcSupported, clusterOperable, clientSet, allStacks, nodeGroups, profileNames,
                   treeVars, warnings, drainFailed, drainInput, calls, remoteVars>>
    /\ UNCHANGED handled
    /\ UNCHANGED cni
    /\ UNCHANGED ngWait
    /\ UNCHANGED listProfiles
    /\ UNCHANGED notDelete

\* ------------------------------------------------------------------------
\* The remote services complete the deletions they accepted.  Delete reads a
\* remote status only at the steps below, so a deletion that ends between two
\* reads is modelled as ending at the next reading step; the stack of a task
\* that is waiting ends within that task's TaskFinish.
\* ------------------------------------------------------------------------
Running(tree, kinds) ==
    \E i \in 1..Len(tasks[tree]) :
        tasks[tree][i].status = "running" /\ tasks[tree][i].kind \in kinds

AwaitedByTask(id) ==
    \E i \in 1..Len(tasks[tasksFor]) :
        /\ tasks[tasksFor][i].status = "running"
        /\ Tracked(tasks[tasksFor][i])
        /\ TaskStack(tasks[tasksFor][i]) = id

ReadsStackStatus(id) ==
    \/ pc = "checkForUndeletedStacks"
    \/ pc = "deleteFargateRoleIfExists" /\ id = FargateStackId
    \/ pc = "DoAllSync" /\ id[1] = "ng" /\ Running(tasksFor, {"unowned"}) /\ ~AwaitedByTask(id)

ReadsNodegroups == pc = "DoAllSync" /\ Running(tasksFor, {"unowned"})

ReadsClusterStatus == pc = "waitForClusterDeleted"

StackDeletionEnds(id) ==
    /\ ReadsStackStatus(id)
    /\ stackStatus[id] = "DELETE_IN_PROGRESS"
    /\ \/ StackDeletionReaches(id, "DELETE_COMPLETE")
       \/ StackDeletionReaches(id, "DELETE_FAILED")
    /\ UNCHANGED <<pc, result, failedAt, localVars, calls, ngType, fargateProfiles,
                   clusterStatus, sshKeysDeleted, kubeconfigDeleted, elbCleaned>>
    /\ UNCHANGED handled
    /\ UNCHANGED cni
    /\ UNCHANGED ngWait
    /\ UNCHANGED listProfiles
    /\ UNCHANGED notDelete

NodegroupDeletionEnds(n) ==
    /\ ReadsNodegroups
    /\ eksNodegroups[n] = "DELETING"
    /\ eksNodegroups' = [eksNodegroups EXCEPT ![n] = "absent"]
    /\ UNCHANGED <<pc, result, failedAt, localVars, calls, stackStatus, ngType,
                   fargateProfiles, clusterStatus, sshKeysDeleted, kubeconfigDeleted,
                   elbCleaned>>
    /\ UNCHANGED handled
    /\ UNCHANGED cni
    /\ UNCHANGED ngWait
    /\ UNCHANGED listProfiles
    /\ UNCHANGED notDelete

ClusterDeletionEnds ==
    /\ ReadsClusterStatus
    /\ clusterStatus = "DELETING"
    /\ clusterStatus' = "DELETED"
    /\ UNCHANGED <<pc, result, failedAt, localVars, calls, stackStatus, ngType,
                   eksNodegroups, fargateProfiles, sshKeysDeleted, kubeconfigDeleted,
                   elbCleaned>>
    /\ UNCHANGED handled
    /\ UNCHANGED cni
    /\ UNCHANGED ngWait
    /\ UNCHANGED listProfiles
    /\ UNCHANGED notDelete

DeleteNext ==
    \/ checkClusterExists
    \/ CanOperate
    \/ ListNodeGroupStacks
    \/ newClientSet
    \/ drainAllNodeGroups
    \/ attemptVpcCniDeletion
    \/ deleteSharedResources
    \/ DeleteProfile
    \/ deleteFargateStack
    \/ deleteDeprecatedStacks
    \/ DeleteKeys
    \/ elbCleanup
    \/ deleteFargateRoleIfExists
    \/ deleteAndWaitForNodegroupsDeletion
    \/ \E i \in 1..MaxLeaves : TaskStart(i)
    \/ \E i \in 1..MaxLeaves : TaskFinish(i)
    \/ nodegroupsDeleted
    \/ deleteIAMAndOIDC
    \/ iamAndOIDCDeleted
    \/ deleteCluster
    \/ waitForClusterDeleted
    \/ checkForUndeletedStacks
    \/ \E id \in StackIds : StackDeletionEnds(id)
    \/ \E n \in NgNames : NodegroupDeletionEnds(n)
    \/ ClusterDeletionEnds

InitOfDelete == DeleteInit /\ AppendIdle /\ NodeGroupIdle /\ CtlIdle /\ StackIdle /\ AZIdle /\ SSMIdle /\ OnceIdle /\ RoleIdle

SpecDelete == InitOfDelete /\ [][DeleteNext]_vars

InitOfDeleteTree == DeleteTreeInit /\ AppendIdle /\ NodeGroupIdle /\ CtlIdle /\ StackIdle /\ AZIdle /\ SSMIdle /\ OnceIdle /\ RoleIdle

SpecDeleteTree == InitOfDeleteTree /\ [][DeleteNext]_vars

InitOfDeleteCNI == DeleteCNIInit /\ AppendIdle /\ NodeGroupIdle /\ CtlIdle /\ StackIdle /\ AZIdle /\ SSMIdle /\ OnceIdle /\ RoleIdle

SpecDeleteCNI == InitOfDeleteCNI /\ [][DeleteNext]_vars

InitOfDeleteProfiles == DeleteProfilesInit /\ AppendIdle /\ NodeGroupIdle /\ CtlIdle /\ StackIdle /\ AZIdle /\ SSMIdle /\ OnceIdle /\ RoleIdle

SpecDeleteProfiles == InitOfDeleteProfiles /\ [][DeleteNext]_vars

InitOfDeleteWait == DeleteWaitInit /\ AppendIdle /\ NodeGroupIdle /\ CtlIdle /\ StackIdle /\ AZIdle /\ SSMIdle /\ OnceIdle /\ RoleIdle

SpecDeleteWait == InitOfDeleteWait /\ [][DeleteNext]_vars

\* ------------------------------------------------------------------------
\* Templates: three sections, each a JSON object keyed by logical name (or
\* not an object at all).  A current entry has the deployed value; the
\* builder may compute the same value for a name, or another one.
\* ------------------------------------------------------------------------
Sections == {"Resources", "Outputs", "Mappings"}

Names == 1..MaxNames

\* the logical name "ServiceRole"
ServiceRole == 1

DeployedValue == "deployed"

BuiltValues == {"deployed", "rebuilt"}

NotAnObject == [isObject |-> FALSE, entries |-> << >>]

Object(entries) == [isObject |-> TRUE, entries |-> entries]

Entries(values) == UNION {[D -> values] : D \in SUBSET Names}

\* the deployed templates: Mappings may be missing from a deployed template
DeployedTemplates ==
    [Sections -> {NotAnObject} \cup {Object(e) : e \in Entries({DeployedValue})}]

\* the templates the builder can render
BuiltTemplates ==
    [Sections -> {NotAnObject} \cup {Object(e) : e \in Entries(BuiltValues)}]

\* gjson: set.Get(k).Exists()
Exists(set, k) == set.isObject /\ k \in DOMAIN set.entries

\* iterFunc leaving an entry of the current template alone, also when it has none
iterFuncNeverSkips(currentSet, k) == FALSE

\* iterFunc: an entry the current section has is skipped
iterFuncSkips(currentSet, k) == Exists(currentSet, k)

\* the names iterFunc appends to its list for one section
AddList(currentSet, newSet) ==
    {k \in DOMAIN newSet.entries : ~iterFuncSkips(currentSet, k)}

\* sjson.Set given the key alone as path: the section is not touched
SetWithoutRoot(template, root, k, value) == template

\* sjson.Set(currentTemplate, root + "." + k, value)
Set(template, root, k, value) ==
    [template EXCEPT ![root] =
        Object([n \in DOMAIN template[root].entries \cup {k} |->
                    IF n = k THEN value ELSE template[root].entries[n]])]

\* newSet.ForEach(iterFunc) for one section: every listed name is set in the
\* current template
RECURSIVE ForEach(_, _, _, _)
ForEach(template, root, keys, newSet) ==
    IF keys = {}
    THEN template
    ELSE LET k == CHOOSE n \in keys : \A m \in keys : n <= m
         IN  ForEach(Set(template, root, k, newSet.entries[k]), root, keys \ {k}, newSet)

\* the current template after the three ForEach loops
Merged(current, new) ==
    LET r == ForEach(current, "Resources", AddList(current["Resources"], new["Resources"]),
                     new["Resources"])
        o == ForEach(r, "Outputs", AddList(current["Outputs"], new["Outputs"]), new["Outputs"])
    IN  ForEach(o, "Mappings", AddList(current["Mappings"], new["Mappings"]), new["Mappings"])

\* the up-to-date test that forgets the mappings
NothingToAddButMappings(addResources, addOutputs, addMappings) ==
    addResources = {} /\ addOutputs = {}

\* len(addResources) == 0 && len(addOutputs) == 0 && len(addMappings) == 0
NothingToAdd(addResources, addOutputs, addMappings) ==
    addResources = {} /\ addOutputs = {} /\ addMappings = {}

\* a plan flag that is not honoured
PlanIgnored(plan) == FALSE

\* if plan { return true, nil }
PlanOnly(plan) == plan

Returned(plan, changed, err, updates, compared) ==
    [plan |-> plan, changed |-> changed, err |-> err, updates |-> updates,
     compared |-> compared]

AppendInit ==
    /\ deployed \in DeployedTemplates
    /\ desired \in BuiltTemplates
    /\ ncalls = 0
    /\ ret = << >>
    /\ before = deployed
    /\ submitted = << >>
    /\ applied = FALSE
    /\ appliedBefore = FALSE

\* one call of AppendNewClusterStackResource(ctx, plan)
AppendNewClusterStackResource(plan) ==
    /\ ncalls < MaxCalls
    /\ ncalls' = ncalls + 1
    /\ before' = deployed
    /\ appliedBefore' = applied
    /\ UNCHANGED desired
    /\ LET currentTemplate == deployed
           currentResources == currentTemplate["Resources"]
           currentOutputs == currentTemplate["Outputs"]
           currentMappings == currentTemplate["Mappings"]
           addResources == AddList(currentResources, desired["Resources"])
           addOutputs == AddList(currentOutputs, desired["Outputs"])
           addMappings == AddList(currentMappings, desired["Mappings"])
       IN  \/ \* GetStackTemplate, DescribeClusterStack, AddAllResources or RenderJSON fails
              /\ ret' = Returned(plan, FALSE, "error", 0, FALSE)
              /\ UNCHANGED <<deployed, submitted, applied>>
           \/ /\ ~currentResources.isObject \/ ~currentOutputs.isObject
              /\ ret' = Returned(plan, FALSE, "current format", 0, FALSE)
              /\ UNCHANGED <<deployed, submitted, applied>>
           \/ \* importServiceRoleARN reads the outputs of a cluster stack that was not found
              /\ currentResources.isObject /\ currentOutputs.isObject
              /\ ~Exists(currentResources, ServiceRole)
              /\ ret' = Returned(plan, FALSE, "panic", 0, FALSE)
              /\ UNCHANGED <<deployed, submitted, applied>>
           \/ /\ currentResources.isObject /\ currentOutputs.isObject
              /\ \E s \in Sections : ~desired[s].isObject
              /\ ret' = Returned(plan, FALSE, "new format", 0, FALSE)
              /\ UNCHANGED <<deployed, submitted, applied>>
           \/ /\ currentResources.isObject /\ currentOutputs.isObject
              /\ \A s \in Sections : desired[s].isObject
              /\ IF NothingToAdd(addResources, addOutputs, addMappings)
                 THEN /\ ret' = Returned(plan, FALSE, "nil", 0, TRUE)
                      /\ UNCHANGED <<deployed, submitted, applied>>
                 ELSE IF PlanOnly(plan)
                 THEN /\ ret' = Returned(plan, TRUE, "nil", 0, TRUE)
                      /\ UNCHANGED <<deployed, submitted, applied>>
                 ELSE /\ submitted' = Merged(currentTemplate, desired)
                      /\ \/ \* UpdateStack with Wait: the change set is applied
                            /\ deployed' = submitted'
                            /\ applied' = TRUE
                            /\ ret' = Returned(plan, TRUE, "nil", 1, TRUE)
                         \/ \* UpdateStack fails: the stack keeps its template
                            /\ ret' = Returned(plan, TRUE, "update failed", 1, TRUE)
                            /\ UNCHANGED <<deployed, applied>>
    /\ UNCHANGED notAppend

AppendNext == \E plan \in BOOLEAN : AppendNewClusterStackResource(plan)

\* ------------------------------------------------------------------------
\* NodeGroupResourceSet.AddAllResources: capacity defaulting and validation,
\* then the IAM, security-group, launch-template and autoscaling-group
\* resources
\* ------------------------------------------------------------------------
Nil == 0 - 1

Capacities == {Nil} \cup (0..MaxCapacity)

NodeGroupSpecs ==
    [MinSize : Capacities, MaxSize : Capacities, DesiredCapacity : Capacities]

\* const MaximumTagNumber = 50
MaximumTagNumber == 50

\* taint keys: key 1 is also the first label's key, the others are no label's key
TaintKeys == {1, MaxLabels + 1, MaxLabels + 2}

\* no placement and no subnets yet
NoLaunch == [placement |-> <<"-", Nil>>, strategy |-> "-", subnets |-> << >>, imported |-> "-"]

\* a node group in one given availability zone, without EFA and placement
PlainNetwork ==
    [EFAEnabled |-> FALSE, Placement |-> Nil, PrivateNetworking |-> FALSE,
     explicit |-> TRUE, selected |-> <<1>>]

\* every network configuration: SelectNodeGroupSubnets answers with up to
\* MaxSubnets subnets
Networks ==
    [EFAEnabled : BOOLEAN, Placement : {Nil, 1}, PrivateNetworking : BOOLEAN,
     explicit : BOOLEAN,
     selected : UNION {[1..n -> 1..MaxSubnets] : n \in 0..MaxSubnets}]

\* the call's inputs: the capacity values from specs, up to maxLabels labels
\* (keys 1..n) and up to maxTaints taints
NodeGroupInputs(specs, defaults, maxLabels, maxTaints, networks) ==
    /\ given \in specs
    /\ spec = given
    /\ defaultNodeCount \in defaults
    /\ ipv6 \in BOOLEAN
    /\ autoScaler \in BOOLEAN
    /\ propagateASGTags \in BOOLEAN
    /\ labels \in {1..n : n \in 0..maxLabels}
    /\ taints \in UNION {[1..n -> TaintKeys] : n \in 0..maxTaints}
    /\ ngResult = "none"
    /\ ngFailedAt = "-"
    /\ resources = {}
    /\ asgTags = << >>
    /\ ngErrorArgs = << >>
    /\ network \in networks
    /\ launch = NoLaunch

\* every combination of capacity values, with at most one label and no taint
NodeGroupInit == NodeGroupInputs(NodeGroupSpecs, 1..MaxCapacity, 1, 0, {PlainNetwork})

\* every combination of labels and taints, with only the desired capacity
\* set or not
NodeGroupTagsInit ==
    NodeGroupInputs([MinSize : {Nil}, MaxSize : {Nil}, DesiredCapacity : {Nil, 0}],
                    1..MaxCapacity, MaxLabels, MaxTaints, {PlainNetwork})

\* every network configuration, with no capacity value set and no tag inputs
NodeGroupNetworkInit ==
    NodeGroupInputs([MinSize : {Nil}, MaxSize : {Nil}, DesiredCapacity : {Nil}],
                    {1}, 0, 0, Networks)

\* a MinSize check that never fails
MinSizeErrorNever(s) == FALSE

\* MinSize set and DesiredCapacity below it
MinSizeError(s) ==
    /\ s.MinSize # Nil
    /\ s.DesiredCapacity # Nil
    /\ s.DesiredCapacity < s.MinSize

\* "Ensure MinSize is set"
EnsureMinSize(s, dflt) ==
    IF s.MinSize = Nil
    THEN [s EXCEPT !.MinSize =
              IF s.DesiredCapacity = Nil THEN dflt ELSE s.DesiredCapacity]
    ELSE s

MaxSizeErrorOfDesiredOnly(s) ==
    /\ s.MaxSize # Nil
    /\ s.DesiredCapacity # Nil
    /\ s.DesiredCapacity > s.MaxSize

\* MaxSize set and DesiredCapacity above it, or else MaxSize below MinSize
MaxSizeError(s) ==
    /\ s.MaxSize # Nil
    /\ IF s.DesiredCapacity # Nil /\ s.DesiredCapacity > s.MaxSize
       THEN TRUE
       ELSE s.MaxSize < s.MinSize

EnsureMaxSizeFromMinSize(s) ==
    IF s.MaxSize = Nil THEN [s EXCEPT !.MaxSize = s.MinSize] ELSE s

\* "Ensure MaxSize is set"
EnsureMaxSize(s) ==
    IF s.MaxSize = Nil
    THEN [s EXCEPT !.MaxSize =
              IF s.DesiredCapacity = Nil THEN s.MinSize ELSE s.DesiredCapacity]
    ELSE s

\* return an error from AddAllResources
NodeGroupFail(step) ==
    /\ ngResult' = "error"
    /\ ngFailedAt' = step

\* the resources addResourcesForSecurityGroups adds: none when the local
\* security group is disabled
SecurityGroupResources(withLocal) == IF withLocal THEN {"SG"} ELSE {}

\* the "Name" tag and the cluster ownership tag
FixedTags == <<<<"Name", 0>>, <<"kubernetes.io/cluster", 0>>>>

\* the two tags appended when the autoscaler add-on policy is enabled
AutoScalerTags(enabled) ==
    IF enabled
    THEN <<<<"k8s.io/cluster-autoscaler/enabled", 0>>, <<"k8s.io/cluster-autoscaler", 0>>>>
    ELSE << >>

\* a test that looks at the labels only
DuplicateKeyOfLabel(ls, ts) ==
    \E i \in 1..Len(ts) : ts[i] \in ls

\* a taint whose key is a label's key or an earlier taint's key
DuplicateKey(ls, ts) ==
    \E i \in 1..Len(ts) : ts[i] \in ls \/ \E j \in 1..(i - 1) : ts[j] = ts[i]

\* generateClusterAutoscalerTags: one tag per label, then one per taint
generateClusterAutoscalerTags(ls, ts) ==
    IF DuplicateKey(ls, ts)
    THEN [err |-> TRUE, tags |-> << >>]
    ELSE [err |-> FALSE,
          \* a tag is its kind (label or taint key prefix), the key and
          \* PropagateAtLaunch
          tags |-> [i \in 1..Cardinality(ls) |-> <<"label", i, "true">>]
                       \o [i \in 1..Len(ts) |-> <<"taint", ts[i], "true">>]]

ReachesMaximumTagNumber(n) == n >= MaximumTagNumber

\* len(tags) > MaximumTagNumber
ExceedsMaximumTagNumber(n) == n > MaximumTagNumber

\* a placement group for every EFA node group, placement given or not
NeedsPlacementGroupWhenEFA(nw) == nw.EFAEnabled

\* api.IsEnabled(n.spec.EFAEnabled) && n.spec.Placement == nil
NeedsPlacementGroup(nw) == nw.EFAEnabled /\ nw.Placement = Nil

\* the resources newLaunchTemplateData adds
PlacementResources(nw) ==
    IF NeedsPlacementGroup(nw) THEN {"NodeGroupPlacementGroup"} ELSE {}

\* launchTemplateData.Placement: the given group's name, else a reference to
\* the new placement group, else none
LaunchPlacement(nw) ==
    IF nw.Placement # Nil THEN <<"GroupName", nw.Placement>>
    ELSE IF NeedsPlacementGroup(nw) THEN <<"Ref:NodeGroupPlacementGroup", 0>>
    ELSE <<"-", Nil>>

\* the branch of AssignSubnets that selects subnets (and may fail)
SelectsSubnets(nw) == nw.explicit \/ nw.EFAEnabled

\* an AssignSubnets that keeps every selected subnet
AssignSubnetsKeepingAll(nw) ==
    IF SelectsSubnets(nw)
    THEN [subnets |-> nw.selected, imported |-> "-"]
    ELSE [subnets |-> << >>,
          imported |-> IF nw.PrivateNetworking THEN "SubnetsPrivate" ELSE "SubnetsPublic"]

\* AssignSubnets: the selected subnets, only the first of them with EFA, or
\* the imported subnets of the cluster stack
AssignSubnets(nw) ==
    IF SelectsSubnets(nw)
    THEN [subnets |-> IF nw.EFAEnabled /\ Len(nw.selected) > 1
                      THEN <<nw.selected[1]>> ELSE nw.selected,
          imported |-> "-"]
    ELSE [subnets |-> << >>,
          imported |-> IF nw.PrivateNetworking THEN "SubnetsPrivate" ELSE "SubnetsPublic"]

\* addResourcesForNodeGroup, after the resources added so far: the launch
\* template is added before the subnets are assigned, the autoscaling group
\* last, with all the tags
addResourcesForNodeGroup(added, failure) ==
    LET tags == FixedTags \o AutoScalerTags(autoScaler)
        clusterTags == generateClusterAutoscalerTags(labels, taints)
        allTags == IF propagateASGTags THEN tags \o clusterTags.tags ELSE tags
        withTemplate == added \cup PlacementResources(network) \cup {"NodeGroupLaunchTemplate"}
        placed == [NoLaunch EXCEPT !.placement = LaunchPlacement(network),
                                   !.strategy = IF NeedsPlacementGroup(network)
                                                THEN "cluster" ELSE "-"]
        assigned == [placed EXCEPT !.subnets = AssignSubnets(network).subnets,
                                   !.imported = AssignSubnets(network).imported]
    IN  IF failure = "newLaunchTemplateData"
        THEN /\ resources' = added
             /\ NodeGroupFail(failure)
             /\ UNCHANGED <<asgTags, ngErrorArgs, launch>>
        ELSE IF failure = "AssignSubnets" /\ SelectsSubnets(network)
        THEN /\ resources' = withTemplate
             /\ NodeGroupFail(failure)
             /\ launch' = placed
             /\ UNCHANGED <<asgTags, ngErrorArgs>>
        ELSE IF propagateASGTags /\ clusterTags.err
        THEN /\ resources' = withTemplate
             /\ NodeGroupFail("generateClusterAutoscalerTags")
             /\ launch' = assigned
             /\ UNCHANGED <<asgTags, ngErrorArgs>>
        ELSE IF propagateASGTags /\ ExceedsMaximumTagNumber(Len(allTags))
        THEN /\ resources' = withTemplate
             /\ NodeGroupFail("MaximumTagNumber")
             /\ ngErrorArgs' = <<MaximumTagNumber, Len(allTags), Len(clusterTags.tags)>>
             /\ launch' = assigned
             /\ UNCHANGED asgTags
        ELSE /\ resources' = withTemplate \cup {"NodeGroup"}
             /\ asgTags' = allTags
             /\ ngResult' = "ok"
             /\ ngFailedAt' = "-"
             /\ launch' = assigned
             /\ UNCHANGED ngErrorArgs

NodeGroupFailures ==
    {"-", "addResourcesForIAM", "newLaunchTemplateData", "AssignSubnets"}

AddAllResources ==
    /\ ngResult = "none"
    /\ UNCHANGED <<given, defaultNodeCount, ipv6, tagInputVars, network>>
    /\ IF ipv6
       THEN /\ NodeGroupFail("IPv6")
            /\ UNCHANGED <<spec, resources, asgTags, ngErrorArgs, launch>>
       ELSE IF MinSizeError(spec)
       THEN /\ NodeGroupFail("MinSize")
            /\ UNCHANGED <<spec, resources, asgTags, ngErrorArgs, launch>>
       ELSE LET withMin == EnsureMinSize(spec, defaultNodeCount) IN
            IF MaxSizeError(withMin)
            THEN /\ NodeGroupFail("MaxSize")
                 /\ spec' = withMin
                 /\ UNCHANGED <<resources, asgTags, ngErrorArgs, launch>>
            ELSE /\ spec' = EnsureMaxSize(withMin)
                 /\ \E failure \in NodeGroupFailures :
                    \E iam \in SUBSET {"IAM"} :
                    \E withLocal \in BOOLEAN :
                       IF failure = "addResourcesForIAM"
                       THEN /\ resources' = iam
                            /\ NodeGroupFail(failure)
                            /\ UNCHANGED <<asgTags, ngErrorArgs, launch>>
                       ELSE addResourcesForNodeGroup(
                                iam \cup SecurityGroupResources(withLocal), failure)
    /\ UNCHANGED notNodeGroup

NodeGroupNext == AddAllResources

\* ------------------------------------------------------------------------
\* Cmd.NewCtl
\* ------------------------------------------------------------------------
\* the validation answers for up to MaxCtlNodeGroups node groups: TRUE is an error
ValidationAnswers == UNION {[1..n -> BOOLEAN] : n \in 0..MaxCtlNodeGroups}

CtlInit ==
    /\ cmd \in [Validate : BOOLEAN, clusterConfigErr : BOOLEAN,
                nodeGroupErrs : ValidationAnswers,
                managedNodeGroupErrs : ValidationAnswers,
                newErr : BOOLEAN, supportedRegion : BOOLEAN]
    /\ ctl = [result |-> "none", failedAt |-> "-", warnings |-> << >>,
              defaulted |-> {}, provider |-> FALSE]

\* a NewCtl that ignores every validation error
ValidationErrorNeverReturned(validate) == FALSE

\* if c.Validate { return nil, err }
ValidationErrorReturned(validate) == validate

\* the node groups the first loop reaches: all of them, or those up to the
\* first one whose error is returned
RECURSIVE NodeGroupsReached(_, _)
NodeGroupsReached(errs, i) ==
    IF i > Len(errs) THEN 0
    ELSE IF errs[i] /\ ValidationErrorReturned(cmd.Validate) THEN i
    ELSE NodeGroupsReached(errs, i + 1)

\* index of the first managed node group that fails validation, or 0
RECURSIVE FirstError(_, _)
FirstError(errs, i) ==
    IF i > Len(errs) THEN 0
    ELSE IF errs[i] THEN i
    ELSE FirstError(errs, i + 1)

\* a NewCtl that is lenient with managed node groups too
ManagedNodeGroupErrorReturnedWhenValidating(validate) == validate

\* the error of ValidateManagedNodeGroup is returned without a look at Validate
ManagedNodeGroupErrorReturned(validate) == TRUE

NewCtl ==
    /\ ctl.result = "none"
    /\ LET clusterFatal == cmd.clusterConfigErr /\ ValidationErrorReturned(cmd.Validate)
           clusterWarning == IF cmd.clusterConfigErr /\ ~clusterFatal
                             THEN <<<<"ValidateClusterConfig", 0>>>> ELSE << >>
           stop == NodeGroupsReached(cmd.nodeGroupErrs, 1)
           last == IF stop = 0 THEN Len(cmd.nodeGroupErrs) ELSE stop - 1
           ignored == SelectSeq([i \in 1..last |-> i], LAMBDA i : cmd.nodeGroupErrs[i])
           ngWarnings == [k \in 1..Len(ignored) |-> <<"ValidateNodeGroup", ignored[k]>>]
           managed == IF ManagedNodeGroupErrorReturned(cmd.Validate)
                      THEN FirstError(cmd.managedNodeGroupErrs, 1)
                      ELSE 0
           managedDefaulted ==
               {<<"managed", i>> : i \in 1..(IF managed = 0
                                            THEN Len(cmd.managedNodeGroupErrs)
                                            ELSE managed)}
           Return(res, at, warned, dflt, built) ==
               ctl' = [result |-> res, failedAt |-> at, warnings |-> warned,
                       defaulted |-> dflt, provider |-> built]
           ngDefaulted == {<<"nodegroup", i>> : i \in 1..last}
       IN  IF clusterFatal
           THEN Return("error", "ValidateClusterConfig", << >>, {}, FALSE)
           ELSE IF stop # 0
           THEN Return("error", "ValidateNodeGroup", clusterWarning \o ngWarnings,
                       ngDefaulted, FALSE)
           ELSE IF managed # 0
           THEN Return("error", "ValidateManagedNodeGroup", clusterWarning \o ngWarnings,
                       ngDefaulted \cup managedDefaulted, FALSE)
           ELSE IF cmd.newErr
           THEN Return("error", "eks.New", clusterWarning \o ngWarnings,
                       ngDefaulted \cup managedDefaulted, TRUE)
           ELSE IF ~cmd.supportedRegion
           THEN Return("error", "IsSupportedRegion", clusterWarning \o ngWarnings,
                       ngDefaulted \cup managedDefaulted, TRUE)
           ELSE Return("ok", "-", clusterWarning \o ngWarnings,
                       ngDefaulted \cup managedDefaulted, TRUE)
    /\ UNCHANGED cmd
    /\ UNCHANGED notCtl

CtlNext == NewCtl

\* ------------------------------------------------------------------------
\* Cmd.NewCtl called from several goroutines of one process: the package's
\* sync.Once guards logRegionAndVersionInfo
\* ------------------------------------------------------------------------
MaxGoroutines == 3

Goroutines == 1..MaxGoroutines

\* what the validation of a call, its eks.New and its IsSupportedRegion answer
CallAnswers == [validationErr : BOOLEAN, newErr : BOOLEAN, supportedRegion : BOOLEAN]

OnceInit ==
    /\ once = [done |-> FALSE, m |-> 0, logged |-> 0]
    /\ goroutines \in [Goroutines -> [answers : CallAnswers, pc : {"NewCtl"},
                                      provider : {FALSE}, result : {"none"}]]

At(g, where) == goroutines[g].pc = where

MoveTo(g, where) == goroutines' = [goroutines EXCEPT ![g].pc = where]

ReturnFrom(g, res) ==
    goroutines' = [goroutines EXCEPT ![g].pc = "returned", ![g].result = res]

\* NewCtl up to eks.New: a validation error that is returned, an error of
\* eks.New, or the provider
construct(g) ==
    /\ At(g, "NewCtl")
    /\ IF goroutines[g].answers.validationErr
       THEN ReturnFrom(g, "validation error")
       ELSE IF goroutines[g].answers.newErr
       THEN ReturnFrom(g, "eks.New error")
       ELSE goroutines' = [goroutines EXCEPT ![g].pc = "once.Do", ![g].provider = TRUE]
    /\ UNCHANGED once
    /\ UNCHANGED notOnce

\* a Once that runs its function on every call
OnceRunsAlways(done) == TRUE

\* sync.Once: the function runs while done is not set
OnceRuns(done) == ~done

\* once.Do, fast path: done is read without the mutex
onceDo(g) ==
    /\ At(g, "once.Do")
    /\ IF OnceRuns(once.done) THEN MoveTo(g, "doSlow") ELSE MoveTo(g, "IsSupportedRegion")
    /\ UNCHANGED once
    /\ UNCHANGED notOnce

\* once.Do, slow path: the mutex is taken and done is read again
doSlow(g) ==
    /\ At(g, "doSlow")
    /\ once.m = 0
    /\ IF OnceRuns(once.done)
       THEN /\ once' = [once EXCEPT !.m = g]
            /\ MoveTo(g, "logRegionAndVersionInfo")
       ELSE /\ MoveTo(g, "IsSupportedRegion")
            /\ UNCHANGED once
    /\ UNCHANGED notOnce

\* the function given to once.Do
logRegionAndVersionInfo(g) ==
    /\ At(g, "logRegionAndVersionInfo")
    /\ once' = [once EXCEPT !.logged = @ + 1]
    /\ MoveTo(g, "doSlowReturns")
    /\ UNCHANGED notOnce

\* the deferred calls of the slow path: done is set, the mutex released
doSlowReturns(g) ==
    /\ At(g, "doSlowReturns")
    /\ once' = [once EXCEPT !.done = TRUE, !.m = 0]
    /\ MoveTo(g, "IsSupportedRegion")
    /\ UNCHANGED notOnce

\* if !ctl.IsSupportedRegion() { return nil, ErrUnsupportedRegion }
IsSupportedRegion(g) ==
    /\ At(g, "IsSupportedRegion")
    /\ IF goroutines[g].answers.supportedRegion
       THEN ReturnFrom(g, "ok")
       ELSE ReturnFrom(g, "unsupported region")
    /\ UNCHANGED once
    /\ UNCHANGED notOnce

OnceNext ==
    \E g \in Goroutines :
        \/ construct(g)
        \/ onceDo(g)
        \/ doSlow(g)
        \/ logRegionAndVersionInfo(g)
        \/ doSlowReturns(g)
        \/ IsSupportedRegion(g)

\* ------------------------------------------------------------------------
\* StackCollection.DescribeClusterStack
\* ------------------------------------------------------------------------
\* Strings are sequences of symbols.  A symbol stands for a run of characters:
\* "EKS", "-", "ControlPlane", "cluster", and "a" for any other run.
Symbols == {"EKS", "-", "ControlPlane", "cluster", "a"}

Strings(n) == UNION {[1..k -> Symbols] : k \in 0..n}

HasPrefix(str, prefix) ==
    Len(str) >= Len(prefix) /\ SubSeq(str, 1, Len(prefix)) = prefix

HasSuffix(str, suffix) ==
    Len(str) >= Len(suffix) /\ SubSeq(str, Len(str) - Len(suffix) + 1, Len(str)) = suffix

TrimPrefix(str, prefix) ==
    IF HasPrefix(str, prefix) THEN SubSeq(str, Len(prefix) + 1, Len(str)) ELSE str

TrimSuffix(str, suffix) ==
    IF HasSuffix(str, suffix) THEN SubSeq(str, 1, Len(str) - Len(suffix)) ELSE str

ClusterSuffix == <<"-", "cluster">>

LegacyPrefix == <<"EKS", "-">>

LegacySuffix == <<"-", "ControlPlane">>

\* api.ClusterNameTag, api.OldClusterNameTag, and any other tag key
TagKeys == {"ClusterNameTag", "OldClusterNameTag", "other"}

TagValues == {<< >>, <<"a">>}

StackTags == [Key : TagKeys, Value : TagValues]

\* the value of the first tag with one of the two cluster-name keys, or ""
RECURSIVE getClusterNameTag(_)
getClusterNameTag(tags) ==
    IF tags = << >> THEN << >>
    ELSE IF Head(tags).Key \in {"ClusterNameTag", "OldClusterNameTag"} THEN Head(tags).Value
    ELSE getClusterNameTag(Tail(tags))

getClusterName(stack) ==
    IF HasSuffix(stack.StackName, ClusterSuffix) /\ getClusterNameTag(stack.Tags) # << >>
    THEN getClusterNameTag(stack.Tags)
    ELSE IF HasPrefix(stack.StackName, LegacyPrefix) /\ HasSuffix(stack.StackName, LegacySuffix)
    THEN TrimPrefix(LegacyPrefix, TrimSuffix(stack.StackName, LegacySuffix))
    ELSE << >>

\* a loop that passes over no stack for its status
SkipsNoStatus(status) == FALSE

\* if *s.StackStatus == cfn.StackStatusDeleteComplete { continue }
SkipsStatus(status) == status = "DELETE_COMPLETE"

\* index of the first stack the loop returns, from i on; 0 for nil
RECURSIVE FirstClusterStack(_, _)
FirstClusterStack(stacks, i) ==
    IF i > Len(stacks) THEN 0
    ELSE IF ~SkipsStatus(stacks[i].StackStatus) /\ getClusterName(stacks[i]) # << >>
    THEN i
    ELSE FirstClusterStack(stacks, i + 1)

\* stacks as they come in lists of several: the shapes of name and tags the
\* function tells apart
ListedStacks ==
    [StackName : {<<"a", "-", "cluster">>, <<"EKS", "-", "a", "-", "ControlPlane">>,
                  <<"a">>},
     StackStatus : {"CREATE_COMPLETE", "DELETE_COMPLETE"},
     Tags : {<< >>, <<[Key |-> "ClusterNameTag", Value |-> <<"a">>]>>}]

\* one stack of any name, or up to MaxStacks stacks of the listed shapes, or
\* an error of DescribeStacks
StackAnswers ==
    [err : {FALSE},
     stacks : {<<st>> : st \in
                  [StackName : Strings(MaxNameLen),
                   StackStatus : {"CREATE_COMPLETE", "DELETE_COMPLETE"},
                   Tags : {<< >>} \cup {<<t>> : t \in StackTags}
                            \cup {<<[Key |-> "ClusterNameTag", Value |-> << >>],
                                    [Key |-> "OldClusterNameTag", Value |-> <<"a">>]>>}]}]
    \cup [err : BOOLEAN,
          stacks : UNION {[1..n -> ListedStacks] : n \in 0..MaxStacks}]

StackInit ==
    /\ cfnStacks \in StackAnswers
    /\ clusterStack = [called |-> FALSE, stack |-> 0, name |-> << >>, err |-> FALSE]

DescribeClusterStack ==
    /\ ~clusterStack.called
    /\ clusterStack' =
          IF cfnStacks.err
          THEN [called |-> TRUE, stack |-> 0, name |-> << >>, err |-> TRUE]
          \* name: what getClusterName answered for the stack that is returned
          ELSE [called |-> TRUE, stack |-> FirstClusterStack(cfnStacks.stacks, 1),
                name |-> IF FirstClusterStack(cfnStacks.stacks, 1) = 0 THEN << >>
                         ELSE getClusterName(
                                cfnStacks.stacks[FirstClusterStack(cfnStacks.stacks, 1)]),
                err |-> FALSE]
    /\ UNCHANGED cfnStacks
    /\ UNCHANGED notStack

StackNext == DescribeClusterStack

\* ------------------------------------------------------------------------
\* StackCollection.importServiceRoleARN and RefreshFargatePodExecutionRoleARN
\* ------------------------------------------------------------------------
\* an output a stack does not have, and a role ARN the ClusterConfig does not set
NoOutput == "absent"

NoARN == "nil"

\* DescribeClusterStack: an error, nil for no cluster stack, or the stack with
\* its outputs
ClusterStackAnswers ==
    {a \in [kind : {"error", "nil", "stack"},
            ServiceRoleARN : {NoOutput, "arn:service"},
            FargatePodExecutionRoleARN : {NoOutput, "arn:pods"}] :
        a.kind # "stack" => a.ServiceRoleARN = NoOutput /\ a.FargatePodExecutionRoleARN = NoOutput}

\* GetFargateStack: an error, nil for no Fargate stack, or the stack
FargateStackAnswers ==
    {a \in [kind : {"error", "nil", "stack"},
            FargatePodExecutionRoleARN : {NoOutput, "arn:fargate"}] :
        a.kind # "stack" => a.FargatePodExecutionRoleARN = NoOutput}

RoleInit ==
    /\ roleStacks \in [cluster : ClusterStackAnswers, fargate : FargateStackAnswers,
                       usesEksctlCreatedServiceRole : BOOLEAN]
    /\ \E service \in {NoARN, "arn:given"}, pods \in {NoARN, "arn:given"} :
          roles = [ServiceRoleARN |-> service, FargatePodExecutionRoleARN |-> pods,
                   given |-> [ServiceRoleARN |-> service, FargatePodExecutionRoleARN |-> pods],
                   called |-> "-", result |-> "none", asked |-> << >>]

RoleReturn(fn, res, asked) ==
    [roles EXCEPT !.called = fn, !.result = res, !.asked = asked]

\* importServiceRoleARN: the outputs of the cluster stack are read through the
\* pointer DescribeClusterStack returned, nil or not
importServiceRoleARN ==
    /\ roles.result = "none"
    /\ LET s == roleStacks.cluster
           asked == <<"DescribeClusterStack">>
       IN  roles' =
             IF s.kind = "error"
             THEN RoleReturn("importServiceRoleARN", "error", asked)
             ELSE IF roleStacks.usesEksctlCreatedServiceRole
             THEN RoleReturn("importServiceRoleARN", "nil", asked)
             ELSE IF s.kind = "nil"
             THEN RoleReturn("importServiceRoleARN", "panic", asked)
             ELSE IF s.ServiceRoleARN # NoOutput
             THEN [RoleReturn("importServiceRoleARN", "nil", asked)
                        EXCEPT !.ServiceRoleARN = s.ServiceRoleARN]
             ELSE RoleReturn("importServiceRoleARN", "nil", asked)
    /\ UNCHANGED roleStacks
    /\ UNCHANGED notRole

\* outputs.Collect with fargateOutputs as the optional outputs: the ARN is set
\* when the stack has the output
CollectOptional(stack, arn) ==
    IF stack.FargatePodExecutionRoleARN # NoOutput THEN stack.FargatePodExecutionRoleARN ELSE arn

\* RefreshFargatePodExecutionRoleARN: the cluster stack first, then the
\* Fargate stack, read through the pointer GetFargateStack returned
RefreshFargatePodExecutionRoleARN ==
    /\ roles.result = "none"
    /\ LET fn == "RefreshFargatePodExecutionRoleARN"
           s == roleStacks.cluster
           f == roleStacks.fargate
           first == <<"DescribeClusterStack">>
           both == <<"DescribeClusterStack", "GetFargateStack">>
           collected == IF s.kind = "stack"
                        THEN CollectOptional(s, roles.FargatePodExecutionRoleARN)
                        ELSE roles.FargatePodExecutionRoleARN
       IN  roles' =
             IF s.kind = "error"
             THEN RoleReturn(fn, "error", first)
             ELSE IF s.kind = "stack" /\ collected # NoARN
             THEN [RoleReturn(fn, "nil", first) EXCEPT !.FargatePodExecutionRoleARN = collected]
             ELSE IF f.kind = "error"
             THEN RoleReturn(fn, "error", both)
             ELSE IF f.kind = "nil"
             THEN RoleReturn(fn, "panic", both)
             \* fargateOutputs as the required outputs: a missing one is an error
             ELSE IF f.FargatePodExecutionRoleARN = NoOutput
             THEN RoleReturn(fn, "error", both)
             ELSE [RoleReturn(fn, "nil", both)
                        EXCEPT !.FargatePodExecutionRoleARN = f.FargatePodExecutionRoleARN]
    /\ UNCHANGED roleStacks
    /\ UNCHANGED notRole

RoleNext ==
    \/ importServiceRoleARN
    \/ RefreshFargatePodExecutionRoleARN

\* ------------------------------------------------------------------------
\* az.GetAvailabilityZones
\* ------------------------------------------------------------------------
Regions == {"us-west-1", "us-east-1", "cn-north-1"}

MinRequiredAvailabilityZones == 2

RecommendedAvailabilityZones == 3

\* the zone IDs never to use in a region
zoneIDsToAvoid(region) == IF region = "cn-north-1" THEN {<<"cnn1-az4">>} ELSE {}

\* no zone ID is avoided
IsAvoidedNever(region, zoneID) == FALSE

IsAvoided(region, zoneID) == zoneID \in zoneIDsToAvoid(region)

createAvailabilityZoneWithID(zone, zoneID) == [ZoneName |-> zone, ZoneId |-> zoneID]

\* zone<n> with the ID id-zone<n>
createAvailabilityZone(zone) == createAvailabilityZoneWithID(zone, <<"id-", zone>>)

\* the names of the zones whose ID is not avoided, in the order of the answer
filterZones(region, zones) ==
    LET kept == SelectSeq(zones, LAMBDA z : ~IsAvoided(region, z.ZoneId))
    IN  [i \in 1..Len(kept) |-> kept[i].ZoneName]

\* a region with no lower limit
TooFewZonesNever(n) == FALSE

TooFewZones(n) == n < MinRequiredAvailabilityZones

\* how many zones a cluster in the region gets at most
DesiredNumberOfAZs(region) ==
    IF region = "us-east-1" THEN MinRequiredAvailabilityZones
    ELSE RecommendedAvailabilityZones

ZonesOf(names) == {names[i] : i \in 1..Len(names)}

\* the random selections of k different zones
Selections(names, k) ==
    {sel \in [1..k -> ZonesOf(names)] : \A i, j \in 1..k : sel[i] = sel[j] => i = j}

\* the available zones of the region as DescribeAvailabilityZones lists them
\* (the request filters by region, state available and zone type): n zones,
\* the one at avoidedAt with the zone ID cnn1-az4
ListedZones(n, avoidedAt) ==
    [i \in 1..n |-> IF i = avoidedAt
                    THEN createAvailabilityZoneWithID(i, <<"cnn1-az4">>)
                    ELSE createAvailabilityZone(i)]

AZInit ==
    /\ ec2 \in [region : Regions, err : {"nil", "foo"},
                zones : {ListedZones(n, a) : n \in 0..MaxZones, a \in 0..MaxZones}]
    /\ azs = [called |-> FALSE, zones |-> << >>, err |-> [kind |-> "nil"]]

GetAvailabilityZones ==
    /\ ~azs.called
    /\ LET usable == filterZones(ec2.region, ec2.zones)
       IN  IF ec2.err # "nil"
           THEN azs' = [called |-> TRUE, zones |-> << >>,
                        err |-> [kind |-> "error getting availability zones for region",
                                 region |-> ec2.region, cause |-> ec2.err]]
           ELSE IF TooFewZones(Len(usable))
           THEN azs' = [called |-> TRUE, zones |-> << >>,
                        err |-> [kind |-> "only zones discovered", count |-> Len(usable),
                                 zones |-> usable,
                                 required |-> MinRequiredAvailabilityZones]]
           ELSE IF Len(usable) <= DesiredNumberOfAZs(ec2.region)
           THEN azs' = [called |-> TRUE, zones |-> usable, err |-> [kind |-> "nil"]]
           ELSE \E sel \in Selections(usable, DesiredNumberOfAZs(ec2.region)) :
                    azs' = [called |-> TRUE, zones |-> sel, err |-> [kind |-> "nil"]]
    /\ UNCHANGED ec2
    /\ UNCHANGED notAZ

AZNext == GetAvailabilityZones

\* ------------------------------------------------------------------------
\* ami.SSMResolver.Resolve
\* ------------------------------------------------------------------------
Versions == {"1.12", "1.14", "1.15", "1.20", "1.21"}

\* the minor number of a Kubernetes version
MinorOf(version) ==
    CASE version = "1.12" -> 12 [] version = "1.14" -> 14 [] version = "1.15" -> 15
      [] version = "1.20" -> 20 [] version = "1.21" -> 21

InstanceTypes == {"t2.medium", "t3.xlarge", "p2.xlarge", "p3.2xlarge", "a1.large"}

ImageFamilies ==
    {"AmazonLinux2", "WindowsServer2019FullContainer", "WindowsServer2019CoreContainer",
     "WindowsServer20H2CoreContainer", "Bottlerocket", "Ubuntu2004"}

\* no instance type counts as a GPU type
IsGPUInstanceTypeNever(instanceType) == FALSE

IsGPUInstanceType(instanceType) == instanceType \in {"p2.xlarge", "p3.2xlarge"}

IsARMInstanceType(instanceType) == instanceType = "a1.large"

\* the first version with Windows Server 20H2 Core images
Windows20H2MinMinor == 21

\* the name of the parameter that holds the AMI id, as the pieces it is built
\* from, or the error for a family or version without such a parameter
MakeSSMParameterName(version, instanceType, imageFamily) ==
    CASE imageFamily = "AmazonLinux2" ->
            [err |-> "nil",
             name |-> <<"/aws/service/eks/optimized-ami/", version, "/",
                        IF IsGPUInstanceType(instanceType) THEN "amazon-linux-2-gpu"
                        ELSE IF IsARMInstanceType(instanceType) THEN "amazon-linux-2-arm64"
                        ELSE "amazon-linux-2",
                        "/recommended/image_id">>]
      [] imageFamily = "WindowsServer2019FullContainer" ->
            [err |-> "nil",
             name |-> <<"/aws/service/ami-windows-latest/Windows_Server-", "2019",
                        "-English-", "Full", "-EKS_Optimized-", version, "/image_id">>]
      [] imageFamily = "WindowsServer2019CoreContainer" ->
            [err |-> "nil",
             name |-> <<"/aws/service/ami-windows-latest/Windows_Server-", "2019",
                        "-English-", "Core", "-EKS_Optimized-", version, "/image_id">>]
      [] imageFamily = "WindowsServer20H2CoreContainer" ->
            IF MinorOf(version) < Windows20H2MinMinor
            THEN [err |-> "Windows Server 20H2 Core requires EKS version 1.21 and above",
                  name |-> << >>]
            ELSE [err |-> "nil",
                  name |-> <<"/aws/service/ami-windows-latest/Windows_Server-", "20H2",
                             "-English-", "Core", "-EKS_Optimized-", version, "/image_id">>]
      [] imageFamily = "Bottlerocket" ->
            [err |-> "nil",
             name |-> <<"/aws/service/bottlerocket/aws-k8s-", version,
                        IF IsGPUInstanceType(instanceType) THEN "-nvidia" ELSE "",
                        "/",
                        IF IsARMInstanceType(instanceType) THEN "arm64" ELSE "x86_64",
                        "/latest/image_id">>]
      [] OTHER -> [err |-> "unknown image family", name |-> << >>]

\* the value of a parameter of the store: an AMI id that is the parameter's own
AmiOf(name) == <<"ami-of">> \o name

\* the parameters the failing scenarios of the tests lack
FailedParameters ==
    {<<"/aws/service/eks/optimized-ami/", "1.12", "/", "amazon-linux-2",
       "/recommended/image_id">>,
     <<"/aws/service/bottlerocket/aws-k8s-", "1.15", "", "/", "x86_64", "/latest/image_id">>,
     <<"/aws/service/bottlerocket/aws-k8s-", "1.15", "", "/", "arm64", "/latest/image_id">>,
     <<"/aws/service/bottlerocket/aws-k8s-", "1.21", "-nvidia", "/", "x86_64",
       "/latest/image_id">>}

SSMInit ==
    /\ ssm \in [version : Versions, instanceType : InstanceTypes,
                imageFamily : ImageFamilies,
                missing : {{}, FailedParameters} \cup {{n} : n \in FailedParameters}]
    /\ resolved = [called |-> FALSE, calls |-> << >>, ami |-> << >>, err |-> "nil"]

\* Resolve: one GetParameter call on the name, whose value is the AMI id; a
\* GetParameter answer without parameter is an error
Resolve ==
    /\ ~resolved.called
    /\ LET parameter == MakeSSMParameterName(ssm.version, ssm.instanceType, ssm.imageFamily)
       IN  IF parameter.err # "nil"
           THEN resolved' = [called |-> TRUE, calls |-> << >>, ami |-> << >>,
                             err |-> parameter.err]
           ELSE IF parameter.name \in ssm.missing
           THEN resolved' = [called |-> TRUE, calls |-> <<parameter.name>>, ami |-> << >>,
                             err |-> "parameter not found"]
           ELSE resolved' = [called |-> TRUE, calls |-> <<parameter.name>>,
                             ami |-> AmiOf(parameter.name), err |-> "nil"]
    /\ UNCHANGED ssm
    /\ UNCHANGED notSSM

SSMNext == Resolve

\* ------------------------------------------------------------------------
\* Properties of Delete
\* ------------------------------------------------------------------------
DeleteOps == {"DeleteAddon", "DeleteProfile", "DeleteStack", "DeleteNodegroup", "DeleteCluster"}

StackNames == {allStacks[i].NodeGroupName : i \in 1..Len(allStacks)}

RemoteNames == {nodeGroups[i] : i \in 1..Len(nodeGroups)}

NodegroupPlanBuilt == Len(tasks.nodegroups) > 0

TasksOf(kind, n) ==
    {i \in 1..Len(tasks.nodegroups) :
        tasks.nodegroups[i].kind = kind /\ tasks.nodegroups[i].name = n}

\* C1: DeleteCluster is issued only after every node-group deletion task (one
\* per node-group stack, each with wait=true, and one per unowned node group)
\* has finished without error, every node-group stack then being in
\* DELETE_COMPLETE; when a task has failed, Delete returns an error and no
\* DeleteCluster is issued, whatever the force flag.
C1_ClusterDeletedAfterNodegroups ==
    /\ "DeleteCluster" \in IssuedOps =>
          /\ \A n \in StackNames :
                /\ Cardinality(TasksOf("stack", n)) = 1
                /\ stackStatus[NgStackId(n)] = "DELETE_COMPLETE"
          /\ \A n \in RemoteNames \ StackNames : Cardinality(TasksOf("unowned", n)) = 1
          /\ \A i \in 1..Len(tasks.nodegroups) :
                /\ tasks.nodegroups[i].status = "ok"
                /\ tasks.nodegroups[i].wait
    /\ (Errs(tasks.nodegroups) # {} /\ pc \notin {"DoAllSync"}) =>
          /\ pc = "done"
          /\ result = "err"
          /\ failedAt = "deleteAndWaitForNodegroupsDeletion"
          /\ "DeleteCluster" \notin IssuedOps

C1_Witness ==
    /\ "DeleteCluster" \in IssuedOps
    /\ Len(allStacks) = 2
    /\ ~wait

C1_WitnessFailure ==
    /\ pc = "done"
    /\ force
    /\ Errs(tasks.nodegroups) # {}

LaterPhases ==
    {"deleteSharedResources", "deleteFargateRoleIfExists", "deleteAndWaitForNodegroupsDeletion",
     "deleteIAMAndOIDC", "deleteCluster"}

\* C2: when draining fails, with force=true the error is logged and Delete
\* goes on with the shared-resource deletion and the later phases; with
\* force=false Delete returns the drain error and has issued no delete call to
\* the stack service or the control plane.
C2_ForceContinuesAfterDrainFailure ==
    drainFailed =>
        IF force
        THEN /\ "drainAllNodeGroups" \in warnings
             /\ failedAt # "drainAllNodeGroups"
             /\ pc = "deleteSharedResources" \/ "deleteSharedResources" \in phases
             /\ result = "ok" => LaterPhases \subseteq phases
        ELSE /\ pc = "done"
             /\ result = "err"
             /\ failedAt = "drainAllNodeGroups"
             /\ IssuedOps \cap DeleteOps = {}

C2_Witness ==
    /\ drainFailed
    /\ force
    /\ result = "ok"

C2_WitnessAbort ==
    /\ drainFailed
    /\ ~force
    /\ pc = "done"

StepOrder ==
    <<"checkClusterExists", "CanOperate", "ListNodeGroupStacks", "newClientSet",
      "drainAllNodeGroups", "deleteSharedResources", "deleteFargateRoleIfExists",
      "deleteAndWaitForNodegroupsDeletion", "deleteIAMAndOIDC", "deleteCluster",
      "checkForUndeletedStacks">>

\* the step of Delete a returned error comes from
StepOf(f) ==
    IF f = "DescribeCluster" THEN "checkClusterExists"
    ELSE IF f = "DescribeStacks" THEN "checkForUndeletedStacks"
    ELSE f

\* a returned error ends Delete: no step after the failing one was entered
NoStepAfterFailure ==
    result = "err" =>
        /\ pc = "done"
        /\ \A i, j \in 1..Len(StepOrder) :
              (StepOrder[i] = StepOf(failedAt) /\ j > i) => StepOrder[j] \notin phases

\* C3 as stated: only a failure of draining or of the IAM/OIDC deletion is ever
\* logged and skipped; a failure of any other step is returned.
C3_OnlyDrainAndIAMDowngraded ==
    /\ warnings \subseteq {"CanOperate", "drainAllNodeGroups", "deleteIAMAndOIDC"}
    /\ NoStepAfterFailure

\* C3 amended: force downgrades a failure of draining, of the shared-resource
\* deletion and of the IAM/OIDC deletion to a logged warning; without force
\* none of them is skipped, and a failure of any other step is returned,
\* whatever the force flag, with no later step executed.
C3_ForceDowngradesDrainSharedAndIAM ==
    /\ warnings \subseteq
          {"CanOperate", "drainAllNodeGroups", "deleteSharedResources", "deleteIAMAndOIDC"}
    /\ ~force => warnings \subseteq {"CanOperate"}
    /\ force => failedAt \notin {"drainAllNodeGroups", "deleteSharedResources", "deleteIAMAndOIDC"}
    /\ NoStepAfterFailure

C3_Witness ==
    /\ force
    /\ "deleteSharedResources" \in warnings
    /\ result = "err"
    /\ failedAt = "deleteAndWaitForNodegroupsDeletion"

\* C4: the node-group deletion plan holds exactly one unowned-node-group task
\* for each name of the ListNodegroups result that no stack's NodeGroupName
\* equals, and none for any other name.
C4_UnownedTasksAreTheStacklessNodegroups ==
    NodegroupPlanBuilt =>
        \A n \in NgNames :
            Cardinality(TasksOf("unowned", n)) =
                IF n \in RemoteNames \ StackNames THEN 1 ELSE 0

C4_Witness ==
    /\ NodegroupPlanBuilt
    /\ nodeGroups = <<1, 2>>
    /\ StackNames = {1}
    /\ Cardinality(TasksOf("unowned", 2)) = 1
    /\ Cardinality(TasksOf("unowned", 1)) = 0

\* C12 as stated: no stack receives more than one delete call in a run.
C12_OneDeleteCallPerStack ==
    \A c \in DOMAIN calls : c.op = "DeleteStack" => calls[c] <= 1

\* the two delete calls of the Fargate stack: deleteFargateProfiles has issued
\* one, deleteFargateRoleIfExists another
C12_FargateStackDeletedTwice ==
    /\ clusterOperable
    /\ "deleteFargateRoleIfExists" \in phases
    /\ Count("DeleteStack", FargateStackId) = 2

\* deleteIAMAndOIDC has composed its tree (or returned) without the
\* service-account/OIDC sub-tree being allowed
IAMComposedWithoutOIDC ==
    /\ "deleteIAMAndOIDC" \in phases
    /\ pc # "deleteIAMAndOIDC"
    /\ ~clusterOperable \/ ~oidcSupported

IAMTaskKinds == {tasks.iam[i].kind : i \in 1..Len(tasks.iam)}

\* C13 as stated: when the cluster is not operable or OIDC is not supported,
\* no IAM/OIDC deletion task at all is built or executed.
C13_NoIAMTaskWithoutOIDC ==
    IAMComposedWithoutOIDC =>
        /\ tasks.iam = << >>
        /\ Count("DeleteStack", IAMServiceAccountStackId) = 0
        /\ Count("DeleteStack", AddonIAMStackId) = 0

\* C13 amended: when the cluster is not operable or OIDC is not supported,
\* only the service-account/OIDC deletion is skipped; the add-on IAM deletion
\* is still built and executed when there is any.
C13_OnlyServiceAccountTasksSkipped ==
    IAMComposedWithoutOIDC =>
        /\ IAMTaskKinds \subseteq {"addon-iam"}
        /\ Count("DeleteStack", IAMServiceAccountStackId) = 0

C13_Witness ==
    /\ IAMComposedWithoutOIDC
    /\ ~clusterOperable
    /\ Len(tasks.iam) = 1
    /\ tasks.iam[1].kind = "addon-iam"
    /\ tasks.iam[1].status = "ok"
    /\ Count("DeleteStack", AddonIAMStackId) = 1

C13_WitnessUnsupported ==
    /\ IAMComposedWithoutOIDC
    /\ clusterOperable
    /\ ~oidcSupported
    /\ Count("DeleteStack", AddonIAMStackId) = 1

\* the statements of deleteSharedResources and of its callees
SharedSteps ==
    {"deleteSharedResources", "DeleteProfile", "deleteFargateStack",
     "deleteDeprecatedStacks", "DeleteKeys", "elbCleanup"}

\* deleteSharedResources was called and has returned nil
SharedReturnedNil ==
    /\ "deleteSharedResources" \in phases
    /\ pc \notin SharedSteps
    /\ failedAt # "deleteSharedResources"
    /\ "deleteSharedResources" \notin warnings

\* C14 as stated: a run of deleteSharedResources that returns no error has
\* deleted the SSH key pairs and the kubeconfig entry and, on an operable
\* cluster, has run the load-balancer cleanup, deprecated stacks or not.
C14_SharedCleanupAlwaysDone ==
    SharedReturnedNil =>
        /\ sshKeysDeleted
        /\ kubeconfigDeleted
        /\ clusterOperable => elbCleaned

\* deprecated stacks were found and deleted, deleteSharedResources returned
\* nil, and none of the three clean-ups has run on an operable cluster
C14_CleanupSkippedAfterDeprecatedStacks ==
    /\ SharedReturnedNil
    /\ clusterOperable
    /\ Count("DeleteStack", DeprecatedStackId) = 1
    /\ ~sshKeysDeleted
    /\ ~kubeconfigDeleted
    /\ ~elbCleaned

\* DoAllSync of the node-group tree has returned and tasks.errs is its list
NodegroupTreeReturned ==
    /\ NodegroupPlanBuilt
    /\ tasksFor = "-"
    /\ "deleteIAMAndOIDC" \notin phases

\* the remote call of a leaf of the node-group tree was issued, once
LeafCalled(t) ==
    IF t.kind = "unowned"
    THEN Count("DeleteNodegroup", NgStackId(t.name)) = 1
    ELSE Count("DeleteStack", NgStackId(t.name)) = 1

\* the effect of a successful leaf of the node-group tree is in place
LeafApplied(t) ==
    IF t.kind = "unowned"
    THEN eksNodegroups[t.name] = "absent"
    ELSE stackStatus[NgStackId(t.name)] = "DELETE_COMPLETE"

\* C15: when DoAllSync of the parallel node-group tree returns, every leaf
\* has run to its end whether or not a sibling failed, the effect of every
\* successful leaf is applied, and the returned list holds exactly one error
\* per failed leaf.
C15_ParallelTreeRunsEveryLeaf ==
    NodegroupTreeReturned =>
        /\ \A i \in 1..Len(tasks.nodegroups) :
              /\ Finished(tasks.nodegroups[i])
              /\ LeafCalled(tasks.nodegroups[i])
              /\ tasks.nodegroups[i].status = "ok" => LeafApplied(tasks.nodegroups[i])
        /\ Len(tasks.errs) = Cardinality(Errs(tasks.nodegroups))
        /\ \A i \in Errs(tasks.nodegroups) :
              Cardinality({k \in 1..Len(tasks.errs) :
                  tasks.errs[k] = <<tasks.nodegroups[i].kind, tasks.nodegroups[i].name>>}) = 1

\* three parallel leaves, exactly one failed: one error, two effects applied
C15_Witness ==
    /\ NodegroupTreeReturned
    /\ Len(tasks.nodegroups) = 3
    /\ Cardinality(Errs(tasks.nodegroups)) = 1
    /\ Len(tasks.errs) = 1
    /\ Cardinality({i \in 1..3 : /\ tasks.nodegroups[i].status = "ok"
                                 /\ LeafApplied(tasks.nodegroups[i])}) = 2

\* DoAllSync of the IAM/OIDC tree has returned and tasks.errs is its list
IAMTreeReturned ==
    /\ "deleteIAMAndOIDC" \in phases
    /\ pc \notin {"deleteIAMAndOIDC", "DoAllSync"}
    /\ tasks.iam # << >>

\* C16: the children of the sequential IAM/OIDC tree run strictly in order (a
\* child has started only if every child before it has finished), a later
\* child still runs after an earlier one has failed, and the failures are in
\* the returned list: the add-on IAM deletion starts only after the
\* service-account/OIDC deletion has finished, and also when that failed.
C16_SequentialTreeRunsInOrder ==
    /\ \A i \in 1..Len(tasks.iam) :
          tasks.iam[i].status # "pending" =>
              \A j \in 1..(i - 1) : Finished(tasks.iam[j])
    /\ IAMTreeReturned =>
          /\ \A i \in 1..Len(tasks.iam) :
                /\ Finished(tasks.iam[i])
                /\ Count("DeleteStack", TaskStack(tasks.iam[i])) = 1
          /\ Len(tasks.errs) = Cardinality(Errs(tasks.iam))

\* the service-account/OIDC deletion failed, the add-on IAM deletion ran after
\* it and succeeded, and the one failure was returned
C16_Witness ==
    /\ IAMTreeReturned
    /\ Len(tasks.iam) = 2
    /\ tasks.iam[1].kind = "iamserviceaccount"
    /\ tasks.iam[1].status = "err"
    /\ tasks.iam[2].kind = "addon-iam"
    /\ tasks.iam[2].status = "ok"
    /\ Count("DeleteStack", AddonIAMStackId) = 1
    /\ tasks.errs = <<<<"iamserviceaccount", 0>>>>

\* the add-on IAM deletion is running and the service-account/OIDC deletion
\* before it has finished
C16_WitnessOrder ==
    /\ pc = "DoAllSync"
    /\ tasksFor = "iam"
    /\ Len(tasks.iam) = 2
    /\ Finished(tasks.iam[1])
    /\ tasks.iam[2].status = "running"

ProfileCalls(p) == Count("DeleteProfile", <<"profile", p>>)

\* the loop of deleteFargateProfiles was left on a failed DeleteProfile
ProfileDeletionFailed ==
    /\ pc # "DeleteProfile"
    /\ profileNames # << >>
    /\ ProfileCalls(Head(profileNames)) = 1

\* C17: deleteFargateProfiles deletes the profiles one at a time: when
\* DeleteProfile is issued for a profile the profiles before it are gone, so
\* no two deletions are in progress at once; the first failing deletion ends
\* the loop (no later profile gets a call) and is returned by
\* deleteSharedResources, and deleteFargateProfiles has then issued no delete
\* call for the Fargate stack.
C17_ProfilesDeletedOneAtATime ==
    /\ \A p, q \in Profiles :
          q < p /\ ProfileCalls(p) > 0 => fargateProfiles[q] = "absent"
    /\ Cardinality({p \in Profiles : fargateProfiles[p] = "DELETING"}) <= 1
    /\ \A p \in Profiles : ProfileCalls(p) <= 1
    /\ ProfileDeletionFailed =>
          /\ \A i \in 2..Len(profileNames) : ProfileCalls(profileNames[i]) = 0
          /\ IF force THEN "deleteSharedResources" \in warnings
                      ELSE failedAt = "deleteSharedResources"
          /\ "deleteFargateRoleIfExists" \notin phases =>
                Count("DeleteStack", FargateStackId) = 0

\* the second of two profiles got its call, after the first was gone
C17_Witness ==
    /\ ProfileCalls(1) = 1
    /\ ProfileCalls(2) = 1
    /\ fargateProfiles[1] = "absent"

\* the first of two profiles failed: the second got no call and the Fargate
\* stack, which exists, got no delete call
C17_WitnessFailure ==
    /\ ProfileDeletionFailed
    /\ profileNames = <<1, 2>>
    /\ ProfileCalls(2) = 0
    /\ stackStatus[FargateStackId] = "CREATE_COMPLETE"
    /\ pc = "done"

\* C18: Delete reports success only if no listed stack has a status other
\* than DELETE_IN_PROGRESS; when the final check finds such a stack Delete
\* returns the error of checkForUndeletedStacks ("failed to delete all
\* resources").
C18_SuccessOnlyWithoutUndeletedStacks ==
    /\ result = "ok" =>
          \A id \in StackIds : StackListed(id) => stackStatus[id] = "DELETE_IN_PROGRESS"
    /\ (/\ pc = "done"
        /\ "checkForUndeletedStacks" \in phases
        /\ failedAt # "DescribeStacks"
        /\ \E id \in StackIds : StackListed(id) /\ stackStatus[id] # "DELETE_IN_PROGRESS")
          => result = "err" /\ failedAt = "checkForUndeletedStacks"

\* a stack whose deletion failed makes the final check fail
C18_Witness ==
    /\ pc = "done"
    /\ failedAt = "checkForUndeletedStacks"
    /\ stackStatus[FargateStackId] = "DELETE_FAILED"

\* success while a deletion is still in progress
C18_WitnessSuccess ==
    /\ result = "ok"
    /\ stackStatus[FargateStackId] = "DELETE_IN_PROGRESS"

\* nothing was asked of, or changed at, the remote services or this machine
NothingMutated ==
    /\ calls = << >>
    /\ phases = {"checkClusterExists"}
    /\ \A id \in StackIds : stackStatus[id] \in {"NONE", "CREATE_COMPLETE"}
    /\ \A n \in NgNames : eksNodegroups[n] # "DELETING"
    /\ \A p \in Profiles : fargateProfiles[p] # "DELETING"
    /\ ~sshKeysDeleted
    /\ ~kubeconfigDeleted
    /\ ~elbCleaned

\* C19: when DescribeCluster answers that the cluster does not exist, Delete
\* returns the error 'cluster "<name>" not found'; any other DescribeCluster
\* error is returned wrapped; in both cases no drain, profile, stack or
\* cluster deletion call was issued and nothing was changed.
C19_MissingClusterStopsDelete ==
    (describeErr # "nil" /\ pc # "checkClusterExists") =>
        /\ pc = "done"
        /\ result = "err"
        /\ failedAt = IF describeErr = "ResourceNotFoundException"
                      THEN "checkClusterExists" ELSE "DescribeCluster"
        /\ NothingMutated

C19_Witness ==
    /\ describeErr = "ResourceNotFoundException"
    /\ failedAt = "checkClusterExists"
    /\ \E id \in StackIds : stackStatus[id] = "CREATE_COMPLETE"

C19_WitnessOtherError ==
    /\ describeErr = "AccessDeniedException"
    /\ failedAt = "DescribeCluster"
    /\ \E id \in StackIds : stackStatus[id] = "CREATE_COMPLETE"

\* deleteCluster has returned nil: Delete went on to its final check
ClusterDeletionReturnedNil ==
    pc = "checkForUndeletedStacks" \/ "checkForUndeletedStacks" \in phases

\* C20: deleteCluster issues exactly one DeleteCluster call; without wait it
\* returns once the call is accepted, the deletion still going on; with wait
\* it returns success only once the cluster is gone (DescribeCluster answers
\* resource-not-found); when that does not happen in time it returns an error
\* and the call is not repeated.
C20_OneDeleteClusterCall ==
    /\ Count("DeleteCluster", None) <= 1
    /\ ("deleteCluster" \in phases /\ pc # "deleteCluster") =>
          Count("DeleteCluster", None) = 1
    /\ ClusterDeletionReturnedNil =>
          /\ Count("DeleteCluster", None) = 1
          /\ clusterStatus = IF wait THEN "DELETED" ELSE "DELETING"
    /\ failedAt = "deleteCluster" =>
          /\ pc = "done"
          /\ result = "err"
          /\ clusterStatus # "DELETED"
          /\ ~ClusterDeletionReturnedNil

\* waited, and returned success with the cluster gone
C20_Witness ==
    /\ wait
    /\ ClusterDeletionReturnedNil
    /\ clusterStatus = "DELETED"
    /\ Count("DeleteCluster", None) = 1

\* waited in vain: the accepted deletion did not end in time
C20_WitnessTimeout ==
    /\ wait
    /\ failedAt = "deleteCluster"
    /\ clusterStatus = "DELETING"
    /\ Count("DeleteCluster", None) = 1

\* not waited: success with the deletion still going on
C20_WitnessNoWait ==
    /\ ~wait
    /\ result = "ok"
    /\ clusterStatus = "DELETING"

\* ------------------------------------------------------------------------
\* Properties of AppendNewClusterStackResource
\* ------------------------------------------------------------------------
Called == ncalls > 0

\* the logical names of the desired template that the template fetched by
\* the last call lacks in the same section
MissingNames ==
    {sk \in Sections \X Names :
        /\ desired[sk[1]].isObject
        /\ sk[2] \in DOMAIN desired[sk[1]].entries
        /\ ~(before[sk[1]].isObject /\ sk[2] \in DOMAIN before[sk[1]].entries)}

\* C5: the template given to UpdateStack has every logical name of the
\* current template's Resources, Outputs and Mappings, each with its current
\* value, also where the desired template has another value for the name.
C5_SubmittedKeepsCurrentEntries ==
    (Called /\ ret.updates > 0) =>
        \A s \in Sections : \A k \in DOMAIN before[s].entries :
            /\ submitted[s].isObject
            /\ k \in DOMAIN submitted[s].entries
            /\ submitted[s].entries[k] = before[s].entries[k]

C5_Witness ==
    /\ Called
    /\ ret.updates > 0
    /\ \E s \in Sections : \E k \in DOMAIN before[s].entries :
          /\ desired[s].isObject
          /\ k \in DOMAIN desired[s].entries
          /\ desired[s].entries[k] # before[s].entries[k]

\* C6: once a call with plan=false has applied its update, a later call with
\* the same configuration finds no desired name missing, returns
\* changed=false and issues no UpdateStack.
C6_SecondRunReportsNoChanges ==
    (Called /\ appliedBefore) =>
        /\ ~ret.changed
        /\ ret.updates = 0
        /\ ret.compared => MissingNames = {}

C6_Witness ==
    /\ Called
    /\ appliedBefore
    /\ ret.compared
    /\ ret.err = "nil"

\* C7: a call with plan=true issues no UpdateStack and leaves the deployed
\* template as it was; when it gets to compare the templates and a desired
\* name is missing it returns changed=true with a nil error.
C7_PlanNeverMutates ==
    (Called /\ ret.plan) =>
        /\ ret.updates = 0
        /\ deployed = before
        /\ (ret.compared /\ MissingNames # {}) => (ret.changed /\ ret.err = "nil")

C7_Witness ==
    /\ Called
    /\ ret.plan
    /\ ret.changed
    /\ MissingNames # {}

\* C8: a call that gets to compare the templates returns changed=true exactly
\* when a desired name is missing from the same section of the current
\* template; with plan=false it then issues exactly one UpdateStack, and
\* none when nothing is missing.
C8_ChangedIffSomethingMissing ==
    (Called /\ ret.compared) =>
        /\ ret.changed <=> MissingNames # {}
        /\ ~ret.plan => ret.updates = (IF MissingNames # {} THEN 1 ELSE 0)

C8_Witness ==
    /\ Called
    /\ ret.compared
    /\ ~ret.plan
    /\ ret.updates = 1
    /\ \A sk \in MissingNames : sk[1] = "Mappings"

\* ------------------------------------------------------------------------
\* Properties of AddAllResources
\* ------------------------------------------------------------------------
CapacityFields == {"MinSize", "MaxSize", "DesiredCapacity"}

\* the values the user set contradict each other
Inconsistent(g) ==
    \/ g.DesiredCapacity # Nil /\ g.MinSize # Nil /\ g.DesiredCapacity < g.MinSize
    \/ g.DesiredCapacity # Nil /\ g.MaxSize # Nil /\ g.DesiredCapacity > g.MaxSize
    \/ g.MaxSize # Nil /\ g.MinSize # Nil /\ g.MaxSize < g.MinSize

SetValuesKept == \A f \in CapacityFields : given[f] # Nil => spec[f] = given[f]

\* C9: when the capacity values the user set are inconsistent (desired < min,
\* desired > max or max < min), AddAllResources returns an error, no resource
\* has been added, and every value the user set is still as given.
C9_InconsistentCapacityIsAnError ==
    (ngResult # "none" /\ Inconsistent(given)) =>
        /\ ngResult = "error"
        /\ resources = {}
        /\ SetValuesKept

C9_Witness ==
    /\ ngResult = "error"
    /\ ngFailedAt = "MinSize"
    /\ given.DesiredCapacity = 5
    /\ given.MinSize = 10

C9_WitnessMaxBelowMin ==
    /\ ngResult = "error"
    /\ ngFailedAt = "MaxSize"
    /\ given.DesiredCapacity = Nil
    /\ given.MaxSize < given.MinSize

PassedCapacityChecks ==
    /\ ngResult # "none"
    /\ ngFailedAt \notin {"IPv6", "MinSize", "MaxSize"}

\* C10: when the call has passed the capacity checks, an unset min is the
\* desired capacity if that is set and the default node count otherwise, an
\* unset max is the desired capacity if that is set and min otherwise, and
\* every value the user set is as given.
C10_CapacityDefaults ==
    PassedCapacityChecks =>
        /\ SetValuesKept
        /\ spec.DesiredCapacity = given.DesiredCapacity
        /\ given.MinSize = Nil =>
              spec.MinSize = (IF given.DesiredCapacity # Nil
                              THEN given.DesiredCapacity
                              ELSE defaultNodeCount)
        /\ given.MaxSize = Nil =>
              spec.MaxSize = (IF given.DesiredCapacity # Nil
                              THEN given.DesiredCapacity
                              ELSE spec.MinSize)

C10_Witness ==
    /\ ngResult = "ok"
    /\ given = [MinSize |-> Nil, MaxSize |-> Nil, DesiredCapacity |-> 5]
    /\ spec.MinSize = 5
    /\ spec.MaxSize = 5

C10_WitnessMaxFromDesired ==
    /\ PassedCapacityChecks
    /\ given.MaxSize = Nil
    /\ given.MinSize # Nil
    /\ given.DesiredCapacity # Nil
    /\ given.DesiredCapacity > given.MinSize

\* C37: whenever AddAllResources has passed the capacity checks, the
\* resulting values satisfy min <= max, and min <= desired <= max when
\* desired is set, whichever of min, max and desired the user set
C37_CapacityOrderedAfterChecks ==
    PassedCapacityChecks =>
        /\ spec.MinSize # Nil
        /\ spec.MaxSize # Nil
        /\ spec.MinSize <= spec.MaxSize
        /\ spec.DesiredCapacity # Nil =>
              /\ spec.MinSize <= spec.DesiredCapacity
              /\ spec.DesiredCapacity <= spec.MaxSize

\* only max was set: min is the default node count, below max
C37_Witness ==
    /\ PassedCapacityChecks
    /\ given = [MinSize |-> Nil, MaxSize |-> 5, DesiredCapacity |-> Nil]
    /\ spec.MinSize = defaultNodeCount
    /\ spec.MinSize < spec.MaxSize

\* all three were set, desired strictly between min and max
C37_WitnessAllSet ==
    /\ PassedCapacityChecks
    /\ given.MinSize # Nil /\ given.MaxSize # Nil /\ given.DesiredCapacity # Nil
    /\ spec.MinSize < spec.DesiredCapacity
    /\ spec.DesiredCapacity < spec.MaxSize

\* ------------------------------------------------------------------------
\* Properties of addResourcesForNodeGroup's tags
\* ------------------------------------------------------------------------
\* 2 fixed tags, 2 more with the autoscaler add-on policy, one per label and
\* one per taint
TotalTagCount ==
    2 + (IF autoScaler THEN 2 ELSE 0) + Cardinality(labels) + Len(taints)

\* the call got as far as comparing the tag count with the cap
ReachedTagCap ==
    /\ ngResult = "ok" \/ ngFailedAt = "MaximumTagNumber"
    /\ propagateASGTags

\* C11: with label/taint propagation, a total tag count above 50 makes the
\* call fail with an error naming 50 and the count, and no NodeGroup resource
\* is added; a total of at most 50 (also exactly 50) succeeds and the NodeGroup
\* resource carries every tag.
C11_TagCapEnforced ==
    ReachedTagCap =>
        IF TotalTagCount > 50
        THEN /\ ngResult = "error"
             /\ ngErrorArgs[1] = 50
             /\ ngErrorArgs[2] = TotalTagCount
             /\ "NodeGroup" \notin resources
             /\ asgTags = << >>
        ELSE /\ ngResult = "ok"
             /\ "NodeGroup" \in resources
             /\ Len(asgTags) = TotalTagCount

C11_Witness ==
    /\ ngResult = "error"
    /\ ngFailedAt = "MaximumTagNumber"
    /\ TotalTagCount = 51
    /\ taints # << >>

C11_WitnessAtCap ==
    /\ ngResult = "ok"
    /\ propagateASGTags
    /\ TotalTagCount = 50
    /\ Len(asgTags) = 50

\* the tags of the NodeGroup resource that generateClusterAutoscalerTags made
GeneratedTags ==
    SubSeq(asgTags, Len(FixedTags) + (IF autoScaler THEN 2 ELSE 0) + 1, Len(asgTags))

TagCount(tag) == Cardinality({i \in 1..Len(GeneratedTags) : GeneratedTags[i] = tag})

\* no taint has the key of a label or of another taint
KeysDistinct ==
    /\ \A i \in 1..Len(taints) : taints[i] \notin labels
    /\ \A i, j \in 1..Len(taints) : taints[i] = taints[j] => i = j

\* C40: generateClusterAutoscalerTags returns an error and no tags when a
\* taint's key equals a label's key or an earlier taint's key; otherwise it
\* returns exactly one label tag per label and one taint tag per taint, each
\* with PropagateAtLaunch "true"
C40_DuplicateKeysRefusedElseOneTagEach ==
    (propagateASGTags /\ (ngResult = "ok" \/ ngFailedAt \in {"generateClusterAutoscalerTags",
                                                           "MaximumTagNumber"})) =>
        IF ~KeysDistinct
        THEN /\ ngResult = "error"
             /\ ngFailedAt = "generateClusterAutoscalerTags"
             /\ asgTags = << >>
             /\ "NodeGroup" \notin resources
        ELSE /\ ngFailedAt # "generateClusterAutoscalerTags"
             /\ ngResult = "ok" =>
                   /\ Len(GeneratedTags) = Cardinality(labels) + Len(taints)
                   /\ \A k \in labels : TagCount(<<"label", k, "true">>) = 1
                   /\ \A i \in 1..Len(taints) : TagCount(<<"taint", taints[i], "true">>) = 1

\* two labels and two taints of different keys: four generated tags
C40_Witness ==
    /\ ngResult = "ok"
    /\ propagateASGTags
    /\ Cardinality(labels) = 2
    /\ Len(taints) = 2
    /\ KeysDistinct
    /\ Len(GeneratedTags) = 4

\* the second taint repeats the key of the first, which is no label's key
C40_WitnessDuplicateTaint ==
    /\ ngFailedAt = "generateClusterAutoscalerTags"
    /\ Len(taints) = 2
    /\ taints[1] = taints[2]
    /\ taints[1] \notin labels

\* ------------------------------------------------------------------------
\* Specifications
\* ------------------------------------------------------------------------
\* ------------------------------------------------------------------------
\* Properties of Cmd.NewCtl
\* ------------------------------------------------------------------------
\* ValidateClusterConfig or a ValidateNodeGroup answers with an error
ConfigInvalid ==
    cmd.clusterConfigErr \/ \E i \in DOMAIN cmd.nodeGroupErrs : cmd.nodeGroupErrs[i]

ManagedInvalid ==
    \E i \in DOMAIN cmd.managedNodeGroupErrs : cmd.managedNodeGroupErrs[i]

\* the errors NewCtl ignores in the lenient mode, in the order it meets them
IgnorableErrors ==
    (IF cmd.clusterConfigErr THEN <<<<"ValidateClusterConfig", 0>>>> ELSE << >>)
    \o LET bad == SelectSeq([i \in DOMAIN cmd.nodeGroupErrs |-> i],
                            LAMBDA i : cmd.nodeGroupErrs[i])
       IN  [k \in 1..Len(bad) |-> <<"ValidateNodeGroup", bad[k]>>]

\* C21: with Validate a cluster-config or node-group validation error is
\* returned and the provider is never constructed; without Validate each of
\* these errors is logged as ignored, every node group is defaulted, and the
\* provider is constructed (provided no managed node group fails its
\* validation, whose error is returned in both modes).
C21_ValidationErrorsFatalUnlessLenient ==
    ctl.result # "none" =>
        /\ (cmd.Validate /\ ConfigInvalid) =>
              /\ ctl.result = "error"
              /\ ctl.failedAt \in {"ValidateClusterConfig", "ValidateNodeGroup"}
              /\ ~ctl.provider
        /\ ~cmd.Validate =>
              /\ ctl.warnings = IgnorableErrors
              /\ \A i \in DOMAIN cmd.nodeGroupErrs : <<"nodegroup", i>> \in ctl.defaulted
              /\ ctl.failedAt \notin {"ValidateClusterConfig", "ValidateNodeGroup"}
              /\ ~ManagedInvalid => ctl.provider

\* lenient mode: two errors ignored, node groups defaulted, provider built
C21_Witness ==
    /\ ~cmd.Validate
    /\ cmd.clusterConfigErr
    /\ Len(cmd.nodeGroupErrs) = 2
    /\ cmd.nodeGroupErrs[2]
    /\ Len(ctl.warnings) = 2
    /\ ctl.provider
    /\ ctl.result = "ok"

\* strict mode: the second node group's error is returned, no provider
C21_WitnessStrict ==
    /\ cmd.Validate
    /\ ~cmd.clusterConfigErr
    /\ cmd.nodeGroupErrs = <<FALSE, TRUE>>
    /\ ctl.failedAt = "ValidateNodeGroup"
    /\ ~ctl.provider

\* NewCtl returned the error of a cluster-config or node-group validation
EarlierErrorReturned == ctl.failedAt \in {"ValidateClusterConfig", "ValidateNodeGroup"}

\* C39: a managed-node-group validation error makes NewCtl return an error
\* without constructing the provider, whatever the value of Validate: it is
\* the error returned unless an earlier validation error was returned in its
\* place, which happens with Validate only
C39_ManagedValidationErrorAlwaysFatal ==
    (ctl.result # "none" /\ ManagedInvalid) =>
        /\ ctl.result = "error"
        /\ ~ctl.provider
        /\ IF EarlierErrorReturned
           THEN cmd.Validate /\ ConfigInvalid
           ELSE ctl.failedAt = "ValidateManagedNodeGroup"

\* lenient mode: the cluster-config error was ignored with a warning, the
\* managed node group's error returned, no provider
C39_Witness ==
    /\ ~cmd.Validate
    /\ cmd.clusterConfigErr
    /\ cmd.managedNodeGroupErrs = <<FALSE, TRUE>>
    /\ ctl.result = "error"
    /\ ctl.failedAt = "ValidateManagedNodeGroup"
    /\ Len(ctl.warnings) > 0
    /\ ~ctl.provider

\* ------------------------------------------------------------------------
\* Properties of DescribeClusterStack
\* ------------------------------------------------------------------------
\* DescribeClusterStack has returned without error
StackReturned == clusterStack.called /\ ~clusterStack.err

\* the stack carries a cluster-name tag, current or deprecated key
CarriesClusterNameTag(st) ==
    \E i \in DOMAIN st.Tags : st.Tags[i].Key \in {"ClusterNameTag", "OldClusterNameTag"}

\* the name is EKS-<name>-ControlPlane with a non-empty <name>
LegacyNamed(st) ==
    /\ HasPrefix(st.StackName, LegacyPrefix)
    /\ HasSuffix(st.StackName, LegacySuffix)
    /\ Len(st.StackName) > Len(LegacyPrefix) + Len(LegacySuffix)

\* the stacks the statement says are cluster stacks
StatedClusterStack(st) ==
    /\ st.StackStatus # "DELETE_COMPLETE"
    /\ \/ HasSuffix(st.StackName, ClusterSuffix) /\ CarriesClusterNameTag(st)
       \/ LegacyNamed(st)

\* the stacks the amended statement says are cluster stacks: the tag that
\* counts is the first with a cluster-name key and its value is not empty;
\* a name that starts with EKS- and ends in -ControlPlane counts unless
\* it is EKS--ControlPlane, so EKS-ControlPlane counts too
AmendedClusterStack(st) ==
    /\ st.StackStatus # "DELETE_COMPLETE"
    /\ \/ /\ HasSuffix(st.StackName, ClusterSuffix)
          /\ \E i \in DOMAIN st.Tags :
                /\ st.Tags[i].Key \in {"ClusterNameTag", "OldClusterNameTag"}
                /\ st.Tags[i].Value # << >>
                /\ \A j \in 1..(i - 1) :
                      st.Tags[j].Key \notin {"ClusterNameTag", "OldClusterNameTag"}
       \/ /\ HasPrefix(st.StackName, LegacyPrefix)
          /\ HasSuffix(st.StackName, LegacySuffix)
          /\ st.StackName # LegacyPrefix \o LegacySuffix

\* C22 as stated: the result is the first stack not in DELETE_COMPLETE that has
\* the suffix -cluster and carries the cluster-name tag or is named
\* EKS-<name>-ControlPlane with a non-empty name, nil when there is none; it is
\* never a stack in DELETE_COMPLETE nor a tagged stack without the suffix.
C22_FirstClusterStackAsStated ==
    StackReturned =>
        LET sts == cfnStacks.stacks
            r == clusterStack.stack
            matches == {i \in DOMAIN sts : StatedClusterStack(sts[i])}
        IN  /\ IF matches = {} THEN r = 0
               ELSE r \in matches /\ \A i \in matches : r <= i
            /\ r # 0 =>
                  /\ sts[r].StackStatus # "DELETE_COMPLETE"
                  /\ CarriesClusterNameTag(sts[r]) => HasSuffix(sts[r].StackName, ClusterSuffix)

\* C22 amended: the result is the first stack not in DELETE_COMPLETE that has
\* the suffix -cluster and a non-empty value in its first cluster-name tag, or
\* whose name starts with EKS- and ends in -ControlPlane and is not
\* EKS--ControlPlane; nil when there is none.  It is never a stack in
\* DELETE_COMPLETE, and a tag alone never makes a stack the result.
C22_FirstClusterStack ==
    StackReturned =>
        LET sts == cfnStacks.stacks
            r == clusterStack.stack
            matches == {i \in DOMAIN sts : AmendedClusterStack(sts[i])}
        IN  /\ IF matches = {} THEN r = 0
               ELSE r \in matches /\ \A i \in matches : r <= i
            /\ r # 0 =>
                  /\ sts[r].StackStatus # "DELETE_COMPLETE"
                  /\ \/ HasSuffix(sts[r].StackName, ClusterSuffix)
                     \/ HasSuffix(sts[r].StackName, LegacySuffix)

\* the first stack is a deleted cluster stack, the second a stack of another
\* name with the tag, the third the legacy-named stack that is returned
C22_Witness ==
    /\ StackReturned
    /\ Len(cfnStacks.stacks) = 3
    /\ cfnStacks.stacks[1].StackName = <<"a", "-", "cluster">>
    /\ cfnStacks.stacks[1].StackStatus = "DELETE_COMPLETE"
    /\ cfnStacks.stacks[1].Tags # << >>
    /\ cfnStacks.stacks[2].StackName = <<"a">>
    /\ cfnStacks.stacks[2].Tags # << >>
    /\ cfnStacks.stacks[2].StackStatus = "CREATE_COMPLETE"
    /\ clusterStack.stack = 3

\* the stack EKS-ControlPlane is returned
C22_WitnessNoName ==
    /\ StackReturned
    /\ cfnStacks.stacks[1].StackName = <<"EKS", "-", "ControlPlane">>
    /\ clusterStack.stack = 1

\* a stack with the suffix and an empty tag value is not returned
C22_WitnessEmptyTag ==
    /\ StackReturned
    /\ Len(cfnStacks.stacks) = 1
    /\ cfnStacks.stacks[1].StackName = <<"a", "-", "cluster">>
    /\ cfnStacks.stacks[1].StackStatus = "CREATE_COMPLETE"
    /\ cfnStacks.stacks[1].Tags = <<[Key |-> "ClusterNameTag", Value |-> << >>]>>
    /\ clusterStack.stack = 0

\* ---------------------------------------------------------------------
\* Properties of handleErrors

\* handleErrors was called
HandleErrorsCalled == handled # NotHandled

\* the message has x among its pieces
MessageNames(message, x) == \E i \in 1..Len(message) : message[i] = x

\* every error got its own Critical line, in the order of the list
EachErrorLogged == handled.critical = handled.errs

\* C24 as stated: after handleErrors, every underlying error was logged on
\* its own and the returned error is non-nil and names both the count of the
\* errors and the subject.
C24_SummaryErrorNamesCountAndSubject ==
    HandleErrorsCalled =>
        /\ EachErrorLogged
        /\ handled.err # << >>
        /\ MessageNames(handled.err, Decimal(Len(handled.errs)))
        /\ MessageNames(handled.err, handled.subject)

\* C24: handleErrors is called with a non-empty error list only; it logs the
\* count and the subject in one line, every underlying error on its own,
\* and returns a non-nil error that names the subject and not the count.
C24_SummaryErrorNamesSubjectOnly ==
    HandleErrorsCalled =>
        /\ Len(handled.errs) > 0
        /\ EachErrorLogged
        /\ MessageNames(handled.info, Decimal(Len(handled.errs)))
        /\ MessageNames(handled.info, handled.subject)
        /\ handled.err # << >>
        /\ handled.err = <<"failed to delete ", handled.subject>>
        /\ ~MessageNames(handled.err, Decimal(Len(handled.errs)))
        /\ result = "err" \/ force

\* all three node-group tasks failed and Delete returned the summary error
C24_Witness ==
    /\ HandleErrorsCalled
    /\ handled.subject = "nodegroup(s)"
    /\ Len(handled.errs) = 3
    /\ Len(handled.critical) = 3
    /\ result = "err"
    /\ failedAt = "deleteAndWaitForNodegroupsDeletion"

\* ---------------------------------------------------------------------
\* Properties of the placement and the subnets of an EFA node group

\* newLaunchTemplateData returned the launch template
LaunchTemplateBuilt == "NodeGroupLaunchTemplate" \in resources

\* AssignSubnets returned without error
SubnetsAssigned ==
    \/ ngResult = "ok"
    \/ ngFailedAt \in {"generateClusterAutoscalerTags", "MaximumTagNumber"}

\* the selected subnets cut to the first one
FirstOf(subnets) == IF subnets = << >> THEN << >> ELSE <<subnets[1]>>

\* C23: for a node group with EFA enabled, the subnets AssignSubnets returns
\* are at most one, the first of the selected subnets; the launch template
\* comes with a NodeGroupPlacementGroup resource of strategy cluster exactly
\* when no placement is specified, and when one is specified the launch
\* template names that group and no placement-group resource is added.
C23_EFASingleSubnetAndPlacement ==
    network.EFAEnabled =>
        /\ SubnetsAssigned =>
               /\ Len(launch.subnets) <= 1
               /\ launch.subnets = FirstOf(network.selected)
               /\ launch.imported = "-"
        /\ LaunchTemplateBuilt =>
               /\ "NodeGroupPlacementGroup" \in resources <=> network.Placement = Nil
               /\ network.Placement = Nil =>
                      /\ launch.strategy = "cluster"
                      /\ launch.placement = <<"Ref:NodeGroupPlacementGroup", 0>>
               /\ network.Placement # Nil =>
                      launch.placement = <<"GroupName", network.Placement>>
        /\ ~LaunchTemplateBuilt => "NodeGroupPlacementGroup" \notin resources

\* an EFA node group without placement for which three subnets were selected
C23_Witness ==
    /\ network.EFAEnabled
    /\ network.Placement = Nil
    /\ network.selected = <<2, 1, 3>>
    /\ ngResult = "ok"
    /\ launch.subnets = <<2>>
    /\ "NodeGroupPlacementGroup" \in resources

\* an EFA node group with a placement for which two subnets were selected
C23_WitnessPlacement ==
    /\ network.EFAEnabled
    /\ network.Placement = 1
    /\ network.selected = <<3, 1>>
    /\ ngResult = "ok"
    /\ launch.subnets = <<3>>
    /\ launch.placement = <<"GroupName", 1>>
    /\ "NodeGroupPlacementGroup" \notin resources


\* ---------------------------------------------------------------------
\* Properties of GetAvailabilityZones

\* the names of the listed zones that may be used: all but the zone with
\* the ID cnn1-az4 in cn-north-1
UsableZones ==
    {ec2.zones[i].ZoneName : i \in {k \in 1..Len(ec2.zones) :
        ~(ec2.region = "cn-north-1" /\ ec2.zones[k].ZoneId = <<"cnn1-az4">>)}}

ReturnedZones == {azs.zones[i] : i \in 1..Len(azs.zones)}

\* GetAvailabilityZones returned zones and no error
ZonesReturned == azs.called /\ azs.err.kind = "nil"

\* C25: the zones GetAvailabilityZones returns are distinct names of usable
\* zones (available, zone ID not denylisted): all of them when there are 2 or
\* 3, exactly 3 when there are more than 3; in us-east-1 exactly 2 whenever
\* more than 2 are usable; the zone with ID cnn1-az4 is never returned in
\* cn-north-1.
C25_ZonesDistinctUsableAndCapped ==
    ZonesReturned =>
        LET n == Cardinality(UsableZones)
        IN  /\ \A i, j \in 1..Len(azs.zones) : azs.zones[i] = azs.zones[j] => i = j
            /\ ReturnedZones \subseteq UsableZones
            /\ ec2.region # "us-east-1" /\ n \in {2, 3} => ReturnedZones = UsableZones
            /\ ec2.region # "us-east-1" /\ n > 3 => Len(azs.zones) = 3
            /\ ec2.region = "us-east-1" /\ n = 2 => ReturnedZones = UsableZones
            /\ ec2.region = "us-east-1" /\ n > 2 => Len(azs.zones) = 2
            /\ ec2.region = "cn-north-1" =>
                  \A i \in 1..Len(ec2.zones) :
                      ec2.zones[i].ZoneId = <<"cnn1-az4">> =>
                          ec2.zones[i].ZoneName \notin ReturnedZones

\* cn-north-1 lists zone1, zone2 and zone3 with ID cnn1-az4: zone1 and zone2
C25_Witness ==
    /\ ZonesReturned
    /\ ec2.region = "cn-north-1"
    /\ ec2.zones = ListedZones(3, 3)
    /\ azs.zones = <<1, 2>>

\* four zones listed in us-west-1: three of them, in a random order
C25_WitnessThreeOfFour ==
    /\ ZonesReturned
    /\ ec2.region = "us-west-1"
    /\ Len(ec2.zones) = 4
    /\ azs.zones = <<4, 1, 3>>

\* four zones listed in us-east-1: two of them
C25_WitnessUSEast1 ==
    /\ ZonesReturned
    /\ ec2.region = "us-east-1"
    /\ Len(ec2.zones) = 4
    /\ Len(azs.zones) = 2

\* C26: with fewer than 2 usable zones GetAvailabilityZones returns no zones
\* and the error "only <n> zones discovered <zones>, at least 2 are
\* required"; when DescribeAvailabilityZones fails it returns no zones and
\* "error getting availability zones for region <region>: <cause>".
C26_TooFewZonesOrDescribeError ==
    azs.called =>
        /\ ec2.err # "nil" =>
              /\ azs.zones = << >>
              /\ azs.err = [kind |-> "error getting availability zones for region",
                            region |-> ec2.region, cause |-> ec2.err]
        /\ ec2.err = "nil" /\ Cardinality(UsableZones) < 2 =>
              /\ azs.zones = << >>
              /\ azs.err.kind = "only zones discovered"
              /\ azs.err.count = Cardinality(UsableZones)
              /\ {azs.err.zones[i] : i \in 1..Len(azs.err.zones)} = UsableZones
              /\ azs.err.required = 2

\* only zone1 is available
C26_Witness ==
    /\ azs.called
    /\ ec2.region = "us-west-1"
    /\ ec2.zones = ListedZones(1, 0)
    /\ azs.zones = << >>
    /\ azs.err = [kind |-> "only zones discovered", count |-> 1, zones |-> <<1>>,
                  required |-> 2]

\* DescribeAvailabilityZones fails with foo
C26_WitnessDescribeError ==
    /\ azs.called
    /\ ec2.err = "foo"
    /\ Len(ec2.zones) = 3
    /\ azs.err.kind = "error getting availability zones for region"
    /\ azs.err.cause = "foo"

\* ---------------------------------------------------------------------
\* Properties of SSMResolver.Resolve

\* the families and versions for which a parameter exists
SupportedFamily ==
    \/ ssm.imageFamily \in {"AmazonLinux2", "WindowsServer2019FullContainer",
                            "WindowsServer2019CoreContainer", "Bottlerocket"}
    \/ /\ ssm.imageFamily = "WindowsServer20H2CoreContainer"
       /\ ssm.version = "1.21"

GPUTypes == {"p2.xlarge", "p3.2xlarge"}

\* the name asked for follows from family, version and instance type
NameFollowsInputs(name) ==
    /\ \E i \in 1..Len(name) : name[i] = ssm.version
    /\ ssm.imageFamily = "AmazonLinux2" =>
          /\ name[1] = "/aws/service/eks/optimized-ami/"
          /\ name[4] = "amazon-linux-2-gpu" <=> ssm.instanceType \in GPUTypes
          /\ name[4] = "amazon-linux-2-arm64" <=> ssm.instanceType = "a1.large"
    /\ ssm.imageFamily = "Bottlerocket" =>
          /\ name[1] = "/aws/service/bottlerocket/aws-k8s-"
          /\ name[3] = "-nvidia" <=> ssm.instanceType \in GPUTypes
          /\ name[5] = "arm64" <=> ssm.instanceType = "a1.large"
          /\ name[5] = "x86_64" <=> ssm.instanceType # "a1.large"
    /\ ssm.imageFamily = "WindowsServer2019FullContainer" =>
          name[2] = "2019" /\ name[4] = "Full"
    /\ ssm.imageFamily = "WindowsServer2019CoreContainer" =>
          name[2] = "2019" /\ name[4] = "Core"
    /\ ssm.imageFamily = "WindowsServer20H2CoreContainer" =>
          name[2] = "20H2" /\ name[4] = "Core"

\* C27: for a supported image family Resolve makes exactly one GetParameter
\* call, on the name that follows from family, version and instance type
\* (GPU and ARM variants), and returns the parameter's value as the AMI id;
\* when the parameter is missing it returns an error and an empty AMI id; for
\* Ubuntu2004, and for Windows Server 20H2 Core below 1.21, it returns an
\* error.
C27_OneGetParameterOnTheSelectedName ==
    resolved.called =>
        /\ SupportedFamily =>
              /\ Len(resolved.calls) = 1
              /\ NameFollowsInputs(resolved.calls[1])
              /\ resolved.calls[1] \notin ssm.missing =>
                    /\ resolved.err = "nil"
                    /\ resolved.ami = <<"ami-of">> \o resolved.calls[1]
              /\ resolved.calls[1] \in ssm.missing =>
                    /\ resolved.err # "nil"
                    /\ resolved.ami = << >>
        /\ ssm.imageFamily = "Ubuntu2004" => resolved.err # "nil"
        /\ ssm.imageFamily = "WindowsServer20H2CoreContainer" /\ ssm.version # "1.21" =>
              resolved.err # "nil"

\* AmazonLinux2 1.12 on p2.xlarge: the -gpu parameter's value
C27_Witness ==
    /\ resolved.called
    /\ ssm.imageFamily = "AmazonLinux2"
    /\ ssm.version = "1.12"
    /\ ssm.instanceType = "p2.xlarge"
    /\ resolved.calls = <<<<"/aws/service/eks/optimized-ami/", "1.12", "/",
                            "amazon-linux-2-gpu", "/recommended/image_id">>>>
    /\ resolved.err = "nil"
    /\ resolved.ami = <<"ami-of", "/aws/service/eks/optimized-ami/", "1.12", "/",
                        "amazon-linux-2-gpu", "/recommended/image_id">>

\* Bottlerocket 1.15 on a1.large with the arm64 parameter missing
C27_WitnessMissing ==
    /\ resolved.called
    /\ ssm.imageFamily = "Bottlerocket"
    /\ ssm.version = "1.15"
    /\ ssm.instanceType = "a1.large"
    /\ Len(resolved.calls) = 1
    /\ resolved.calls[1] \in ssm.missing
    /\ resolved.err # "nil"
    /\ resolved.ami = << >>

\* Windows Server 20H2 Core with 1.20
C27_WitnessWindows20H2 ==
    /\ resolved.called
    /\ ssm.imageFamily = "WindowsServer20H2CoreContainer"
    /\ ssm.version = "1.20"
    /\ resolved.err = "Windows Server 20H2 Core requires EKS version 1.21 and above"
    /\ resolved.calls = << >>

\* Ubuntu2004
C27_WitnessUbuntu ==
    /\ resolved.called
    /\ ssm.imageFamily = "Ubuntu2004"
    /\ resolved.err # "nil"

\* ---------------------------------------------------------------------
\* Properties of attemptVpcCniDeletion

\* attemptVpcCniDeletion has run
CniRemovalRan == Len(cni.debug) > 0

CniLogged(line) == \E i \in 1..Len(cni.debug) : cni.debug[i] = line

\* C28: whatever DeleteAddon returns (success, not found, another error),
\* attemptVpcCniDeletion goes on to delete the kube-system/aws-node DaemonSet;
\* the errors of both calls are logged only, and Delete goes on with the
\* shared resources and can still succeed.
C28_CniRemovalNeverFails ==
    CniRemovalRan =>
        /\ Count("DeleteAddon", <<"vpc-cni", 0>>) = 1
        /\ Count("DeleteDaemonSet", <<"aws-node", 0>>) = 1
        /\ CniLogged("deleting kube-system/aws-node DaemonSet")
        /\ cni.addonErr = "ResourceNotFoundException" <=> CniLogged("EKS addon does not exist")
        /\ cni.addonErr = "InternalFailure" <=> CniLogged("failed to delete addon")
        /\ cni.daemonSetErr # "nil" <=>
              CniLogged("failed to delete kube-system/aws-node DaemonSet")
        /\ pc = "deleteSharedResources" \/ "deleteSharedResources" \in phases
        /\ warnings \subseteq {"CanOperate", "drainAllNodeGroups", "deleteSharedResources",
                               "deleteIAMAndOIDC"}
        /\ result = "err" =>
              failedAt \notin {"attemptVpcCniDeletion", "drainAllNodeGroups",
                               "newClientSet", "ListNodeGroupStacks"}

\* DeleteAddon and the DaemonSet deletion both failed and Delete succeeded
C28_Witness ==
    /\ CniRemovalRan
    /\ cni.addonErr = "InternalFailure"
    /\ cni.daemonSetErr = "Forbidden"
    /\ Count("DeleteDaemonSet", <<"aws-node", 0>>) = 1
    /\ result = "ok"

\* the add-on did not exist
C28_WitnessNotFound ==
    /\ CniRemovalRan
    /\ cni.addonErr = "ResourceNotFoundException"
    /\ Count("DeleteDaemonSet", <<"aws-node", 0>>) = 1
    /\ pc = "deleteSharedResources"

\* ---------------------------------------------------------------------
\* Properties of drainAllNodeGroups

DrainCalls == Count("Drain", None)

CniCalls == Count("DeleteAddon", <<"vpc-cni", 0>>) + Count("DeleteDaemonSet", <<"aws-node", 0>>)

\* drainAllNodeGroups has returned
DrainReturned ==
    /\ "drainAllNodeGroups" \in phases
    /\ pc \notin {"drainAllNodeGroups", "attemptVpcCniDeletion"}

\* C29: Drain gets exactly the node groups whose stack is of type unmanaged;
\* without any node-group stack neither Drain nor the CNI removal is called;
\* the CNI removal is attempted only after a Drain that returned no error,
\* never after a failed one, whatever force says.
C29_DrainsUnmanagedThenRemovesCni ==
    /\ DrainCalls > 0 =>
          /\ DrainCalls = 1
          /\ Len(allStacks) > 0
          /\ drainInput = {n \in NgNames :
                              \E i \in 1..Len(allStacks) :
                                  /\ allStacks[i].NodeGroupName = n
                                  /\ allStacks[i].Type = "unmanaged"}
          /\ \A n \in drainInput : ngType[n] = "unmanaged"
    /\ DrainReturned /\ Len(allStacks) = 0 => DrainCalls = 0 /\ CniCalls = 0
    /\ CniCalls > 0 => DrainCalls = 1 /\ ~drainFailed
    /\ drainFailed => CniCalls = 0
    /\ DrainReturned /\ DrainCalls = 1 /\ ~drainFailed => CniCalls = 2

\* a managed and a self-managed node group: only the second is drained, and
\* the CNI removal follows
C29_Witness ==
    /\ DrainReturned
    /\ ngType[1] = "managed"
    /\ ngType[2] = "unmanaged"
    /\ Len(allStacks) = 2
    /\ drainInput = {2}
    /\ ~drainFailed
    /\ CniCalls = 2

\* the drain failed, force let Delete succeed, and the CNI was left alone
C29_WitnessFailedDrain ==
    /\ drainFailed
    /\ force
    /\ result = "ok"
    /\ CniCalls = 0

\* an operable cluster without node-group stacks
C29_WitnessNoStacks ==
    /\ DrainReturned
    /\ Len(allStacks) = 0
    /\ DrainCalls = 0
    /\ result = "ok"

\* ---------------------------------------------------------------------
\* Properties of Delete on a cluster that cannot be operated

\* CanOperate has returned
OperabilityKnown == "ListNodeGroupStacks" \in phases \/ pc = "ListNodeGroupStacks"

\* C30: an error of CanOperate is logged and Delete goes on with the flag it
\* returned; on a cluster that is not operable Delete builds no client set,
\* never drains, deletes no Fargate profile and cleans up no load balancer,
\* and a Delete that succeeds has still run the node-group deletion and
\* issued DeleteCluster.
C30_InoperableClusterStillDeleted ==
    /\ "CanOperate" \in warnings =>
          /\ OperabilityKnown
          /\ ~clusterOperable
          /\ failedAt # "CanOperate"
    /\ OperabilityKnown /\ ~clusterOperable =>
          /\ ~clientSet
          /\ "newClientSet" \notin phases
          /\ "drainAllNodeGroups" \notin phases
          /\ Count("Drain", None) = 0
          /\ "DeleteAddon" \notin IssuedOps
          /\ "DeleteProfile" \notin IssuedOps
          /\ ~elbCleaned
          /\ pc \notin {"newClientSet", "drainAllNodeGroups", "attemptVpcCniDeletion",
                        "DeleteProfile", "elbCleanup"}
          /\ result = "ok" =>
                /\ "deleteAndWaitForNodegroupsDeletion" \in phases
                /\ Count("DeleteCluster", None) = 1
                /\ \A i \in 1..Len(allStacks) :
                       Count("DeleteStack", NgStackId(allStacks[i].NodeGroupName)) = 1

\* CanOperate failed, and Delete deleted the node-group stack and the
\* cluster of a cluster with Fargate profiles
C30_Witness ==
    /\ "CanOperate" \in warnings
    /\ ~clusterOperable
    /\ result = "ok"
    /\ Len(allStacks) = 1
    /\ Count("DeleteStack", NgStackId(allStacks[1].NodeGroupName)) = 1
    /\ Count("DeleteCluster", None) = 1
    /\ \E p \in Profiles : fargateProfiles[p] = "ACTIVE"
    /\ ~elbCleaned

\* CanOperate answered false without error
C30_WitnessNoError ==
    /\ "CanOperate" \notin warnings
    /\ ~clusterOperable
    /\ ~force
    /\ result = "ok"
    /\ Count("DeleteCluster", None) = 1

\* ------------------------------------------------------------------------
\* The wait condition of an unowned node-group deletion
\* ------------------------------------------------------------------------
UnownedTasks ==
    {i \in 1..Len(tasks.nodegroups) : tasks.nodegroups[i].kind = "unowned"}

\* C31: the wait condition of an unowned node-group deletion reports done only
\* when ListNodegroups answered no node group at all and no error, reports
\* not-done and no error while any node group is listed, and passes an error
\* of ListNodegroups through; a task it ended successfully leaves no node
\* group in the cluster; it carries the provider's wait timeout and the
\* caller's poll interval
C31_UnownedWaitDoneOnlyWhenNoNodegroupLeft ==
    /\ ngWait.last.polled =>
          /\ ngWait.last.done <=>
                (ngWait.last.listErr = "nil" /\ Len(ngWait.last.nodegroups) = 0)
          /\ ngWait.last.err = ngWait.last.listErr
    /\ \A i \in UnownedTasks :
          /\ tasks.nodegroups[i].status = "ok" =>
                \A n \in NgNames : eksNodegroups[n] = "absent"
          /\ ngWait.condition.Timeout = ngWait.WaitTimeout
          /\ ngWait.condition.Interval = ngWait.waitInterval

\* a task whose own node group is gone is still waiting, its last poll having
\* listed another node group; timeout and interval differ
C31_OwnNodegroupGoneStillWaiting ==
    /\ ngWait.last.polled /\ ~ngWait.last.done /\ ngWait.last.err = "nil"
    /\ Len(ngWait.last.nodegroups) > 0
    /\ ngWait.condition.Timeout # ngWait.condition.Interval
    /\ \E i \in UnownedTasks :
          /\ tasks.nodegroups[i].status = "running"
          /\ eksNodegroups[tasks.nodegroups[i].name] = "absent"

\* ------------------------------------------------------------------------
\* deleteIAMAndOIDC: the composed tree
\* ------------------------------------------------------------------------
IAMChild(kind) == \E i \in 1..Len(tasks.iam) : tasks.iam[i].kind = kind

\* DoAllSync of the IAM/OIDC tree has returned
IAMTreeRan == tasksFor # "iam" /\ Len(tasks.iam) > 0 /\ AllFinished(tasks.iam)

\* deleteIAMAndOIDC returned an error: Delete returned it, or logged it when forced
IAMErrored == failedAt = "deleteIAMAndOIDC" \/ "deleteIAMAndOIDC" \in warnings

\* C32: deleteIAMAndOIDC appends a sub-tree to the composed tree only when
\* the sub-tree's Len() is greater than zero; an empty composed tree makes it
\* return nil without DoAllSync; a tree that ran makes it return an error
\* exactly when DoAllSync reported at least one failure
C32_IAMTreeOnlyNonEmptySubTreesAndRunOnlyWhenNonEmpty ==
    /\ tasks.subTrees.built =>
          /\ IAMChild("iamserviceaccount") <=> tasks.subTrees.oidc > 0
          /\ IAMChild("addon-iam") <=> tasks.subTrees.addon > 0
          /\ Len(tasks.iam) = 0 =>
                /\ ~IAMErrored
                /\ pc # "DoAllSync"
                /\ pc # "deleteIAMAndOIDC"
    /\ (pc = "DoAllSync" /\ tasksFor = "iam") => Len(tasks.iam) > 0
    /\ IAMTreeRan => (IAMErrored <=> Errs(tasks.iam) # {})

\* both sub-trees were empty and Delete went on to delete the cluster
C32_EmptyTreeSkipped ==
    /\ tasks.subTrees.built
    /\ Len(tasks.iam) = 0
    /\ "deleteCluster" \in phases

\* a tree of one sub-tree only ran and failed
C32_OneSubTreeRanAndFailed ==
    /\ IAMTreeRan
    /\ tasks.subTrees.oidc = 0
    /\ tasks.subTrees.addon > 0
    /\ IAMErrored

\* ------------------------------------------------------------------------
\* getClusterName on legacy stack names
\* ------------------------------------------------------------------------
\* the stack DescribeClusterStack returned has a name EKS-<name>-ControlPlane
\* and no cluster-name tag
LegacyStackReturned ==
    /\ StackReturned
    /\ clusterStack.stack # 0
    /\ LET st == cfnStacks.stacks[clusterStack.stack]
       IN  /\ HasPrefix(st.StackName, LegacyPrefix)
           /\ HasSuffix(st.StackName, LegacySuffix)
           /\ Len(st.StackName) >= Len(LegacyPrefix) + Len(LegacySuffix)
           /\ ~CarriesClusterNameTag(st)

\* <name> of EKS-<name>-ControlPlane
EmbeddedName(stackName) ==
    SubSeq(stackName, Len(LegacyPrefix) + 1, Len(stackName) - Len(LegacySuffix))

\* C33: for a stack named EKS-<name>-ControlPlane that carries no
\* cluster-name tag, getClusterName returns <name>
C33_LegacyNameYieldsEmbeddedName ==
    LegacyStackReturned =>
        clusterStack.name = EmbeddedName(cfnStacks.stacks[clusterStack.stack].StackName)

\* the stack EKS-a-ControlPlane is returned and getClusterName answered EKS-
C33_LegacyNameYieldsPrefix ==
    /\ LegacyStackReturned
    /\ cfnStacks.stacks[clusterStack.stack].StackName = <<"EKS", "-", "a", "-", "ControlPlane">>
    /\ clusterStack.name = <<"EKS", "-">>

\* ------------------------------------------------------------------------
\* NewCtl from several goroutines: logRegionAndVersionInfo
\* ------------------------------------------------------------------------
PastOnce(g) ==
    \/ At(g, "IsSupportedRegion")
    \/ goroutines[g].result \in {"ok", "unsupported region"}

\* C34: across the NewCtl calls of a process, sequential or concurrent,
\* logRegionAndVersionInfo runs at most once and only after a provider was
\* constructed; a call that is past once.Do, the calls that fail with the
\* unsupported-region error among them, finds it has run
C34_LogsAtMostOnceAfterProviderBeforeRegionCheck ==
    /\ once.logged <= 1
    /\ once.logged > 0 => \E g \in Goroutines : goroutines[g].provider
    /\ \A g \in Goroutines :
          /\ At(g, "logRegionAndVersionInfo") => goroutines[g].provider
          /\ PastOnce(g) => once.logged = 1

\* three calls have returned: one failed validation, one was refused for its
\* region and one succeeded; the line was logged once
C34_Witness ==
    /\ once.logged = 1
    /\ \E g \in Goroutines : goroutines[g].result = "unsupported region"
    /\ \E g \in Goroutines : goroutines[g].result = "ok"
    /\ \E g \in Goroutines : goroutines[g].result = "validation error"

\* two calls are in once.Do at the same time: one runs the function while
\* the other waits for the mutex
C34_WitnessConcurrent ==
    \E g, h \in Goroutines :
        /\ At(g, "logRegionAndVersionInfo")
        /\ At(h, "doSlow")

\* ------------------------------------------------------------------------
\* The role ARNs read from stack outputs
\* ------------------------------------------------------------------------
RoleCalled(fn) == roles.called = fn

\* C35: when DescribeClusterStack finds no cluster stack (nil, no error) and
\* the current template has no ServiceRole resource, importServiceRoleARN
\* returns normally, nil or an error, and leaves the configured service role
\* ARN unchanged
C35_MissingClusterStackIsNotDereferenced ==
    (/\ RoleCalled("importServiceRoleARN")
     /\ roleStacks.cluster.kind = "nil"
     /\ ~roleStacks.usesEksctlCreatedServiceRole)
        => /\ roles.result \in {"nil", "error"}
           /\ roles.ServiceRoleARN = roles.given.ServiceRoleARN

\* no cluster stack, no ServiceRole resource: the call ended in a nil
\* dereference
C35_NilClusterStackDereferenced ==
    /\ RoleCalled("importServiceRoleARN")
    /\ roleStacks.cluster.kind = "nil"
    /\ ~roleStacks.usesEksctlCreatedServiceRole
    /\ roles.result = "panic"

\* GetFargateStack was called
FargateStackAsked == Len(roles.asked) = 2

\* C36: RefreshFargatePodExecutionRoleARN takes the ARN from the cluster
\* stack when that stack has the output and asks for the Fargate stack only
\* otherwise; when there is no Fargate stack either it returns nil or an
\* error
C36_FargateStackOnlyWhenNeededAndNeverDereferencedNil ==
    RoleCalled("RefreshFargatePodExecutionRoleARN") =>
        /\ (roleStacks.cluster.kind = "stack"
                /\ roleStacks.cluster.FargatePodExecutionRoleARN # NoOutput) =>
              /\ roles.result = "nil"
              /\ roles.FargatePodExecutionRoleARN = roleStacks.cluster.FargatePodExecutionRoleARN
              /\ ~FargateStackAsked
        /\ (FargateStackAsked /\ roleStacks.fargate.kind = "nil") =>
              roles.result \in {"nil", "error"}

\* the part of C36 that holds: the cluster stack's output wins and the
\* Fargate stack is asked for only without it
C36_ClusterStackOutputFirst ==
    RoleCalled("RefreshFargatePodExecutionRoleARN") =>
        /\ (roleStacks.cluster.kind = "stack"
                /\ roleStacks.cluster.FargatePodExecutionRoleARN # NoOutput) =>
              /\ roles.result = "nil"
              /\ roles.FargatePodExecutionRoleARN = roleStacks.cluster.FargatePodExecutionRoleARN
              /\ ~FargateStackAsked
        /\ FargateStackAsked =>
              \/ roleStacks.cluster.kind = "nil"
              \/ roleStacks.cluster.FargatePodExecutionRoleARN = NoOutput

\* neither stack has the ARN because neither exists: the call ended in a nil
\* dereference
C36_NilFargateStackDereferenced ==
    /\ RoleCalled("RefreshFargatePodExecutionRoleARN")
    /\ roleStacks.cluster.kind = "nil"
    /\ roleStacks.fargate.kind = "nil"
    /\ FargateStackAsked
    /\ roles.result = "panic"

\* ------------------------------------------------------------------------
\* deleteFargateProfiles: the answer of ListProfiles
\* ------------------------------------------------------------------------
\* Delete has not gone past deleteSharedResources
InSharedResources == "deleteFargateRoleIfExists" \notin phases /\ pc # "deleteFargateRoleIfExists"

\* what holds after each answer of ListProfiles that is an error
ListingAnswers ==
    /\ listProfiles = "unauthorized" =>
          /\ \A p \in Profiles : ProfileCalls(p) = 0
          /\ InSharedResources => Count("DeleteStack", FargateStackId) = 0
    /\ listProfiles = "InternalFailure" =>
          /\ IF force THEN "deleteSharedResources" \in warnings
                      ELSE result = "err" /\ failedAt = "deleteSharedResources"
          /\ \A p \in Profiles : ProfileCalls(p) = 0
          /\ Count("DeleteStack", DeprecatedStackId) = 0
          /\ ~sshKeysDeleted
          /\ ~kubeconfigDeleted
          /\ ~elbCleaned
          /\ InSharedResources => Count("DeleteStack", FargateStackId) = 0

\* the step that gets the unauthorized answer goes on with the deprecated
\* stacks: nothing is returned, logged as a failure or called
UnauthorizedListingStep ==
    (pc = "deleteSharedResources" /\ listProfiles' = "unauthorized") =>
        /\ pc' = "deleteDeprecatedStacks"
        /\ UNCHANGED <<result, failedAt, warnings, calls>>

\* C38: when ListProfiles fails with an unauthorized error,
\* deleteFargateProfiles returns nil (deleteSharedResources goes on) and has
\* issued no DeleteProfile and no deletion of the Fargate stack; any other
\* listing error makes deleteSharedResources fail before the deprecated
\* stacks, the SSH keys, the kubeconfig or the load balancers are touched
C38_UnauthorizedListingIgnoredOtherErrorsFatal ==
    []ListingAnswers /\ [][UnauthorizedListingStep]_vars

\* the listing was refused as unauthorized on a cluster with two profiles and
\* a Fargate stack; Delete went on to the SSH keys with no call for either
C38_Witness ==
    /\ listProfiles = "unauthorized"
    /\ \A p \in Profiles : fargateProfiles[p] = "ACTIVE"
    /\ stackStatus[FargateStackId] = "CREATE_COMPLETE"
    /\ sshKeysDeleted
    /\ InSharedResources

\* the listing failed otherwise and Delete returned the error
C38_WitnessOtherError ==
    /\ listProfiles = "InternalFailure"
    /\ pc = "done"
    /\ failedAt = "deleteSharedResources"
    /\ \E p \in Profiles : fargateProfiles[p] = "ACTIVE"

InitOfAppend == AppendInit /\ DeleteIdle /\ NodeGroupIdle /\ CtlIdle /\ StackIdle /\ AZIdle /\ SSMIdle /\ OnceIdle /\ RoleIdle

SpecAppend == InitOfAppend /\ [][AppendNext]_vars

InitOfNodeGroup == NodeGroupInit /\ DeleteIdle /\ AppendIdle /\ CtlIdle /\ StackIdle /\ AZIdle /\ SSMIdle /\ OnceIdle /\ RoleIdle

SpecNodeGroup == InitOfNodeGroup /\ [][NodeGroupNext]_vars

InitOfNodeGroupTags == NodeGroupTagsInit /\ DeleteIdle /\ AppendIdle /\ CtlIdle /\ StackIdle /\ AZIdle /\ SSMIdle /\ OnceIdle /\ RoleIdle

SpecNodeGroupTags == InitOfNodeGroupTags /\ [][NodeGroupNext]_vars

InitOfNodeGroupNetwork == NodeGroupNetworkInit /\ DeleteIdle /\ AppendIdle /\ CtlIdle /\ StackIdle /\ AZIdle /\ SSMIdle /\ OnceIdle /\ RoleIdle

SpecNodeGroupNetwork == InitOfNodeGroupNetwork /\ [][NodeGroupNext]_vars

InitOfCtl == CtlInit /\ DeleteIdle /\ AppendIdle /\ NodeGroupIdle /\ StackIdle /\ AZIdle /\ SSMIdle /\ OnceIdle /\ RoleIdle

SpecCtl == InitOfCtl /\ [][CtlNext]_vars

InitOfStack == StackInit /\ DeleteIdle /\ AppendIdle /\ NodeGroupIdle /\ CtlIdle /\ AZIdle /\ SSMIdle /\ OnceIdle /\ RoleIdle

SpecStack == InitOfStack /\ [][StackNext]_vars

InitOfAZ ==
    AZInit /\ DeleteIdle /\ AppendIdle /\ NodeGroupIdle /\ CtlIdle /\ StackIdle /\ SSMIdle /\ OnceIdle /\ RoleIdle

SpecAZ == InitOfAZ /\ [][AZNext]_vars

InitOfSSM ==
    SSMInit /\ DeleteIdle /\ AppendIdle /\ NodeGroupIdle /\ CtlIdle /\ StackIdle /\ AZIdle /\ OnceIdle /\ RoleIdle

SpecSSM == InitOfSSM /\ [][SSMNext]_vars

InitOfOnce ==
    OnceInit /\ DeleteIdle /\ AppendIdle /\ NodeGroupIdle /\ CtlIdle /\ StackIdle /\ AZIdle /\ SSMIdle /\ RoleIdle

SpecOnce == InitOfOnce /\ [][OnceNext]_vars

InitOfRole ==
    RoleInit /\ DeleteIdle /\ AppendIdle /\ NodeGroupIdle /\ CtlIdle /\ StackIdle /\ AZIdle /\ SSMIdle /\ OnceIdle

SpecRole == InitOfRole /\ [][RoleNext]_vars

====
